---- MODULE Spec2Model ----
(***************************************************************************)
(* The permission and security gate of the grok command-line agent:        *)
(* handle_tool_call (grok/tools.py) with the static checks, the rate       *)
(* limiter and the audit log of grok/security.py, and the settings         *)
(* persistence of grok/config.py.                                          *)
(*                                                                         *)
(* Text (commands, paths, file content) is a sequence of one-character     *)
(* strings, so that the pattern tables of the source are computed on the   *)
(* characters as the source computes them.                                 *)
(***************************************************************************)
EXTENDS Naturals, Integers, Sequences, FiniteSets, TLC

VARIABLES
    userFile,     \* ~/.grok/settings.json: key -> set holding the value, {} when the key is absent
    projFile,     \* <cwd>/.grok/settings.json, same shape
    cwd,          \* os.getcwd() of the process
    mode,         \* agent_loop's local mode, read once by get_mode()
    permissions,  \* agent_loop's local permissions dict, passed to every handle_tool_call
    fs,           \* the regular files of the machine: canonical path -> [content, size]
    ya_answered,  \* history: the <<directory, command>> pairs the operator answered 'ya' for
    audit,        \* lines appended to ~/.grok/logs/security.log, oldest first
    last,         \* the most recent handle_tool_call: its arguments, its return value and what it did
    requests,     \* RateLimiter.requests: key -> the recorded times, oldest first
    now,          \* time.time(), in seconds
    rl_last,      \* the most recent check_rate_limit: its arguments and its return value
    granted,      \* history: key -> the times of the checks that returned True, never pruned
    san,          \* a text handed to InputValidator.sanitize, what it returned, and how often it ran
    cmd_check,    \* a command handed to CommandFilter.is_allowed and what it returned
    file_check,   \* a path and operation handed to FileGuardian.is_allowed and what it returned
    settings_call,\* history: the most recent set_mode or update_permissions and its argument
    mcp,          \* a fetch_from_mcp call: its arguments, the subprocess it spawned, its return value
    shell,        \* the most recent subprocess.check_output: what the process wrote, its exit status, the output returned
    loggers,      \* the AuditLogger instances created: the FileHandlers on logging.getLogger('grok.security')
    session,      \* main.cli and agent_loop: whether the process runs, the operator's input, the history
    pipes         \* fetch_from_mcp and its subprocess: where each stands, what the stdout and stderr pipes hold

vars == <<userFile, projFile, cwd, mode, permissions, fs, ya_answered, audit, last, requests, now, rl_last, granted,
          san, cmd_check, file_check, settings_call, mcp, shell, loggers, session, pipes>>

\* the state of the validators called on their own
CheckVars == <<san, cmd_check, file_check>>

\* the state of the process around handle_tool_call
ProcessVars == <<shell, loggers, session, pipes>>

----------------------------------------------------------------------------
(* Text helpers: str.lower, str.split, re.search of a literal.             *)

\* str.isspace / the regular expression class \s, on the characters the model uses
WS == {" ", "\t", "\n", "\r", "\f"}

UpperToLower ==
    ("A" :> "a") @@ ("B" :> "b") @@ ("C" :> "c") @@ ("D" :> "d") @@ ("E" :> "e") @@
    ("F" :> "f") @@ ("G" :> "g") @@ ("H" :> "h") @@ ("I" :> "i") @@ ("J" :> "j") @@
    ("K" :> "k") @@ ("L" :> "l") @@ ("M" :> "m") @@ ("N" :> "n") @@ ("O" :> "o") @@
    ("P" :> "p") @@ ("Q" :> "q") @@ ("R" :> "r") @@ ("S" :> "s") @@ ("T" :> "t") @@
    ("U" :> "u") @@ ("V" :> "v") @@ ("W" :> "w") @@ ("X" :> "x") @@ ("Y" :> "y") @@
    ("Z" :> "z")

LowerChar(ch) == IF ch \in DOMAIN UpperToLower THEN UpperToLower[ch] ELSE ch

\* str.lower()
Lower(s) == [i \in 1..Len(s) |-> LowerChar(s[i])]

\* the first index >= i of s that holds no whitespace (Len(s)+1 when there is none): a greedy \s*
SkipWS(s, i) ==
    LET rest == {j \in i..Len(s) : s[j] \notin WS}
    IN  IF rest = {} THEN Len(s) + 1
        ELSE CHOOSE j \in rest : \A k \in rest : j <= k

\* the lower-case literal lit matches s at index i, ignoring case (re.IGNORECASE)
MatchAt(s, i, lit) ==
    /\ i >= 1
    /\ i + Len(lit) - 1 <= Len(s)
    /\ \A j \in 1..Len(lit) : LowerChar(s[i + j - 1]) = lit[j]

\* str.split() with no argument: the maximal runs of non-whitespace, in order
RECURSIVE SplitFrom(_, _)
SplitFrom(s, i) ==
    LET b == SkipWS(s, i)
    IN  IF b > Len(s) THEN <<>>
        ELSE LET ends == {j \in b..Len(s) : s[j] \in WS}
                 e == IF ends = {} THEN Len(s) + 1
                      ELSE CHOOSE j \in ends : \A k \in ends : j <= k
             IN  <<SubSeq(s, b, e - 1)>> \o SplitFrom(s, e)

Split(s) == SplitFrom(s, 1)

----------------------------------------------------------------------------
(* The commands, directories and paths of the model                        *)

CmdLs == <<"l", "s", " ", "-", "l", "a">>
CmdSudo == <<"s", "u", "d", "o", " ", "r", "m", " ", "-", "r", "f", " ", "/">>
CmdPipe == <<"c", "a", "t", " ", "f", "|", "s", "h">>
CmdGit == <<"g", "i", "t", " ", "s", "t", "a", "t", "u", "s">>

\* the commands the model proposes and lists
Commands == {CmdLs, CmdSudo, CmdPipe}

\* the working directories of the model
DirA == <<"/", "p", "1">>
DirB == <<"/", "p", "2">>
Dirs == {DirA, DirB}

PathA == <<"a", ".", "t", "x", "t">>
PathEtc == <<"/", "e", "t", "c", "/", "p", "a", "s", "s", "w", "d">>
PathUp == <<".", ".", "/", "e", "t", "c", "/", "a", "p", "p", ".", "c", "o", "n", "f">>
PathNew == <<"n", ".", "t", "x", "t">>

\* the paths the model proposes to edit
Paths == {PathA, PathEtc, PathUp, PathNew}

----------------------------------------------------------------------------
(* CommandFilter (grok/security.py)                                        *)

dangerous_commands ==
    { <<"r", "m">>,
      <<"d", "e", "l">>,
      <<"f", "o", "r", "m", "a", "t">>,
      <<"f", "d", "i", "s", "k">>,
      <<"m", "k", "f", "s">>,
      <<"d", "d">>,
      <<"s", "u", "d", "o">>,
      <<"s", "u">>,
      <<"c", "h", "m", "o", "d">>,
      <<"c", "h", "o", "w", "n">>,
      <<"p", "a", "s", "s", "w", "d">>,
      <<"c", "u", "r", "l">>,
      <<"w", "g", "e", "t">>,
      <<"n", "c">>,
      <<"n", "e", "t", "c", "a", "t">>,
      <<"t", "e", "l", "n", "e", "t">>,
      <<"e", "v", "a", "l">>,
      <<"e", "x", "e", "c">>,
      <<"p", "y", "t", "h", "o", "n", " ", "-", "c">>,
      <<"p", "e", "r", "l", " ", "-", "e">> }

\* r';\s*rm\s+' and r'&&\s*rm\s+': the separator sep, optional whitespace, rm, whitespace
ChainsIntoRm(s, sep) ==
    \E i \in 1..Len(s) :
        /\ MatchAt(s, i, sep)
        /\ LET j == SkipWS(s, i + Len(sep))
           IN  /\ MatchAt(s, j, <<"r", "m">>)
               /\ j + 2 <= Len(s)
               /\ s[j + 2] \in WS

\* r'\|\s*sh\s*'
PipesToShell(s) ==
    \E i \in 1..Len(s) :
        /\ s[i] = "|"
        /\ MatchAt(s, SkipWS(s, i + 1), <<"s", "h">>)

\* the backquote character (ASCII 96), which a TLA+ string cannot hold
Backquote == "BACKQUOTE"

\* the backquote pattern: a backquote, then any later backquote
BacktickSubstitution(s) ==
    \E i \in 1..Len(s) : \E j \in (i + 1)..Len(s) : s[i] = Backquote /\ s[j] = Backquote

\* the dollar-parenthesis pattern: a dollar sign and an opening parenthesis, then any later closing parenthesis
DollarSubstitution(s) ==
    \E i \in 1..Len(s) :
        /\ MatchAt(s, i, <<"$", "(">>)
        /\ \E j \in (i + 2)..Len(s) : s[j] = ")"

\* r'>\s*/dev/' and r'<\s*/dev/'
RedirectsDevice(s, arrow) ==
    \E i \in 1..Len(s) :
        /\ s[i] = arrow
        /\ MatchAt(s, SkipWS(s, i + 1), <<"/", "d", "e", "v", "/">>)

\* the command matches one of CommandFilter.dangerous_patterns
dangerous_patterns(s) ==
    \/ ChainsIntoRm(s, <<";">>)
    \/ ChainsIntoRm(s, <<"&", "&">>)
    \/ PipesToShell(s)
    \/ BacktickSubstitution(s)
    \/ DollarSubstitution(s)
    \/ RedirectsDevice(s, ">")
    \/ RedirectsDevice(s, "<")

\* an is_allowed that compares the first word as it is spelled
is_allowed_case_sensitive(command) ==
    LET cmd_parts == Split(command)
    IN  IF cmd_parts # <<>> /\ cmd_parts[1] \in dangerous_commands THEN FALSE
        ELSE IF dangerous_patterns(command) THEN FALSE
        ELSE TRUE

\* CommandFilter.is_allowed
is_allowed(command) ==
    LET cmd_parts == Split(Lower(command))
    IN  IF cmd_parts # <<>> /\ cmd_parts[1] \in dangerous_commands THEN FALSE
        ELSE IF dangerous_patterns(command) THEN FALSE
        ELSE TRUE

\* is_allowed on the commands of the model, computed once
CommandVerdicts == [c \in Commands |-> is_allowed(c)]

\* a validation that lets every command through
validate_command_none(command) == TRUE

\* SecurityManager.validate_command
validate_command(command) ==
    IF command \in Commands THEN CommandVerdicts[command] ELSE is_allowed(command)

----------------------------------------------------------------------------
(* InputValidator (grok/security.py)                                       *)

max_input_length == 10000

\* stand-ins for control characters a TLA+ string cannot hold
NUL == "NUL"
ESC == "ESC"
DEL == "DEL"

\* r'[\x00-\x08\x0b\x0c\x0e-\x1f\x7f-\x9f]', on the characters the model uses
ControlChars == {NUL, ESC, DEL, "\f"}

NotControl(ch) == ch \notin ControlChars

MinOf(S) == CHOOSE x \in S : \A y \in S : x <= y

\* re.sub of a literal by '', ignoring case: leftmost matches, left to right, not overlapping;
\* from index i on, the text up to the next match stays and the scan resumes after the match
RECURSIVE RemoveLitFrom(_, _, _)
RemoveLitFrom(s, i, lit) ==
    LET matches == {j \in i..Len(s) : MatchAt(s, j, lit)}
    IN  IF matches = {} THEN SubSeq(s, i, Len(s))
        ELSE LET m == MinOf(matches)
             IN  SubSeq(s, i, m - 1) \o RemoveLitFrom(s, m + Len(lit), lit)

RemoveLit(s, lit) == RemoveLitFrom(s, 1, lit)

\* the index of the last character of the match of r'<script[^>]*>.*?</script>' that begins
\* at i, or 0 when there is none: the opening tag runs to the first '>', the body is the
\* shortest run holding no newline that is followed by the closing tag
ScriptEnd(s, i) ==
    IF ~MatchAt(s, i, <<"<", "s", "c", "r", "i", "p", "t">>) THEN 0
    ELSE LET gts == {g \in (i + 7)..Len(s) : s[g] = ">"}
         IN  IF gts = {} THEN 0
             ELSE LET g == MinOf(gts)
                      closes == {e \in (g + 1)..Len(s) :
                                    /\ MatchAt(s, e, <<"<", "/", "s", "c", "r", "i", "p", "t", ">">>)
                                    /\ \A k \in (g + 1)..(e - 1) : s[k] # "\n"}
                  IN  IF closes = {} THEN 0 ELSE MinOf(closes) + 8

\* re.sub of the script pattern by '': leftmost matches, left to right, not overlapping
RECURSIVE RemoveScriptsFrom(_, _)
RemoveScriptsFrom(s, i) ==
    LET matches == {j \in i..Len(s) : ScriptEnd(s, j) # 0}
    IN  IF matches = {} THEN SubSeq(s, i, Len(s))
        ELSE LET m == MinOf(matches)
             IN  SubSeq(s, i, m - 1) \o RemoveScriptsFrom(s, ScriptEnd(s, m) + 1)

RemoveScripts(s) == RemoveScriptsFrom(s, 1)

\* ' '.join(parts)
RECURSIVE JoinWith(_, _)
JoinWith(parts, sep) ==
    IF parts = <<>> THEN <<>>
    ELSE IF Len(parts) = 1 THEN parts[1]
    ELSE parts[1] \o sep \o JoinWith(Tail(parts), sep)

\* the four re.sub passes of sanitize, in the order of dangerous_patterns
RemoveDangerous(s) ==
    RemoveLit(
        RemoveLit(
            RemoveScripts(SelectSeq(s, NotControl)),
            <<"j", "a", "v", "a", "s", "c", "r", "i", "p", "t", ":">>),
        <<"d", "a", "t", "a", ":", "t", "e", "x", "t", "/", "h", "t", "m", "l">>)

\* a sanitize that measures the text after the removals
sanitize_measuring_late(user_input) ==
    IF Len(RemoveDangerous(user_input)) > max_input_length THEN [ok |-> FALSE, text |-> <<>>]
    ELSE [ok |-> TRUE, text |-> JoinWith(Split(RemoveDangerous(user_input)), <<" ">>)]

\* InputValidator.sanitize: [ok |-> FALSE] stands for the SecurityError it raises
sanitize(user_input) ==
    IF Len(user_input) > max_input_length THEN [ok |-> FALSE, text |-> <<>>]
    ELSE [ok |-> TRUE, text |-> JoinWith(Split(RemoveDangerous(user_input)), <<" ">>)]

TextSpaces == <<"x", " ", " ", "y">>
\* n times the letter a
RECURSIVE Letters(_)
Letters(n) ==
    IF n = 0 THEN <<>>
    ELSE IF n % 2 = 0 THEN LET half == Letters(n \div 2) IN half \o half
    ELSE <<"a">> \o Letters(n - 1)

TextOversized == Letters(max_input_length + 1)

\* the payloads the model proposes
Contents == {TextSpaces, TextOversized}

\* sanitize on the payloads of the model within the size limit, computed once
Sanitized == [t \in {c \in Contents : Len(c) <= max_input_length} |-> sanitize(t)]

\* SecurityManager.validate_input
validate_input(user_input) ==
    IF Len(user_input) <= max_input_length /\ user_input \in DOMAIN Sanitized
    THEN Sanitized[user_input]
    ELSE sanitize(user_input)

----------------------------------------------------------------------------
(* FileGuardian (grok/security.py)                                         *)

restricted_paths ==
    { <<"/", "e", "t", "c">>,
      <<"/", "b", "i", "n">>,
      <<"/", "s", "b", "i", "n">>,
      <<"/", "u", "s", "r", "/", "b", "i", "n">>,
      <<"/", "u", "s", "r", "/", "s", "b", "i", "n">>,
      <<"/", "b", "o", "o", "t">>,
      <<"/", "d", "e", "v">>,
      <<"/", "p", "r", "o", "c">>,
      <<"/", "s", "y", "s">>,
      <<"/", "r", "o", "o", "t">>,
      <<"C", ":", "\\", "W", "i", "n", "d", "o", "w", "s">>,
      <<"C", ":", "\\", "P", "r", "o", "g", "r", "a", "m", " ", "F", "i", "l", "e", "s">>,
      <<"C", ":", "\\", "S", "y", "s", "t", "e", "m", "3", "2">> }

\* 100 * 1024 * 1024
max_file_size == 104857600

allowed_extensions ==
    { <<".", "t", "x", "t">>,
      <<".", "m", "d">>,
      <<".", "p", "y">>,
      <<".", "j", "s">>,
      <<".", "j", "s", "o", "n">>,
      <<".", "y", "a", "m", "l">>,
      <<".", "y", "m", "l">>,
      <<".", "t", "o", "m", "l">>,
      <<".", "i", "n", "i">>,
      <<".", "c", "f", "g">>,
      <<".", "c", "o", "n", "f">>,
      <<".", "l", "o", "g">>,
      <<".", "c", "s", "v">> }

\* str.startswith
StartsWith(s, prefix) ==
    /\ Len(prefix) <= Len(s)
    /\ SubSeq(s, 1, Len(prefix)) = prefix

\* the components of a path: the runs between slashes, empty runs included
RECURSIVE ComponentsFrom(_, _)
ComponentsFrom(s, i) ==
    LET slashes == {j \in i..Len(s) : s[j] = "/"}
    IN  IF slashes = {} THEN <<SubSeq(s, i, Len(s))>>
        ELSE <<SubSeq(s, i, MinOf(slashes) - 1)>> \o ComponentsFrom(s, MinOf(slashes) + 1)

Components(s) == ComponentsFrom(s, 1)

\* the absolute path of a stack of components
Render(stack) == <<"/">> \o JoinWith(stack, <<"/">>)

\* the symbolic links of the machine: canonical path of the link -> canonical path of its target
Symlinks ==
    (<<"/", "p", "1", "/", "l", ".", "t", "x", "t">> :> <<"/", "e", "t", "c", "/", "h", "o", "s", "t", "s">>)

\* os.path.realpath: walk the components, drop '' and '.', pop on '..', follow links
RECURSIVE ResolveWalk(_, _)
ResolveWalk(stack, comps) ==
    IF comps = <<>> THEN stack
    ELSE LET c == Head(comps)
             rest == Tail(comps)
         IN  IF c = <<>> \/ c = <<".">> THEN ResolveWalk(stack, rest)
             ELSE IF c = <<".", ".">>
                  THEN ResolveWalk(IF stack = <<>> THEN <<>> ELSE SubSeq(stack, 1, Len(stack) - 1), rest)
             ELSE IF Render(Append(stack, c)) \in DOMAIN Symlinks
                  THEN ResolveWalk(<<>>, Components(Symlinks[Render(Append(stack, c))]) \o rest)
             ELSE ResolveWalk(Append(stack, c), rest)

\* os.path.join(dir, path)
PathJoin(dir, path) ==
    IF path # <<>> /\ path[1] = "/" THEN path
    ELSE IF dir # <<>> /\ dir[Len(dir)] = "/" THEN dir \o path
    ELSE dir \o <<"/">> \o path

\* str(Path(path).resolve()) in the working directory dir
Resolve(path, dir) == Render(ResolveWalk(<<>>, Components(PathJoin(dir, path))))

\* Path(path).resolve() raises (ValueError: embedded null byte)
ResolveRaises(path) == \E i \in 1..Len(path) : path[i] = NUL

\* PurePath.suffix of a canonical path
Suffix(rp) ==
    LET comps == Components(rp)
        name == comps[Len(comps)]
        dots == {i \in 1..Len(name) : name[i] = "."}
    IN  IF dots = {} THEN <<>>
        ELSE LET i == CHOOSE d \in dots : \A e \in dots : e <= d
             IN  IF 1 < i /\ i < Len(name) THEN SubSeq(name, i, Len(name)) ELSE <<>>

\* what is_allowed derives from the path alone when the restricted-root test is skipped
PathFactsUnrestricted(path, dir) ==
    IF ResolveRaises(path)
    THEN [raises |-> TRUE, resolved |-> <<>>, restricted |-> FALSE, suffix_allowed |-> FALSE]
    ELSE LET resolved_path == Resolve(path, dir)
         IN  [raises |-> FALSE,
              resolved |-> resolved_path,
              restricted |-> FALSE,
              suffix_allowed |-> Lower(Suffix(resolved_path)) \in allowed_extensions]

\* what is_allowed derives from the path alone: whether resolve() raises, the canonical path,
\* whether it starts with a restricted path, whether its lower-cased suffix is allowed
PathFactsOf(path, dir) ==
    IF ResolveRaises(path)
    THEN [raises |-> TRUE, resolved |-> <<>>, restricted |-> FALSE, suffix_allowed |-> FALSE]
    ELSE LET resolved_path == Resolve(path, dir)
         IN  [raises |-> FALSE,
              resolved |-> resolved_path,
              restricted |-> \E restricted \in restricted_paths : StartsWith(resolved_path, restricted),
              suffix_allowed |-> Lower(Suffix(resolved_path)) \in allowed_extensions]

\* PathFactsOf on the paths of the model, as given and joined to a working directory, computed once
PathFactsTable ==
    [pd \in (Paths \cup {PathJoin(d, p) : d \in Dirs, p \in Paths}) \X Dirs |-> PathFactsOf(pd[1], pd[2])]

PathFacts(path, dir) ==
    IF <<path, dir>> \in DOMAIN PathFactsTable THEN PathFactsTable[<<path, dir>>]
    ELSE PathFactsOf(path, dir)

\* the canonical path the operating system opens for path in working directory dir
Canonical(path, dir) == PathFacts(path, dir).resolved

\* the canonical paths whose stat() raises (PermissionError: the directory cannot be searched)
StatRaises == {<<"/", "p", "1", "/", "l", "o", "c", "k", "e", "d", "/", "a", ".", "t", "x", "t">>}

\* an is_allowed whose except clause lets the operation through
file_is_allowed_fail_open(path, operation, dir, files) ==
    LET facts == PathFacts(path, dir)
    IN  IF facts.raises THEN TRUE
        ELSE IF facts.restricted THEN FALSE
        ELSE IF operation \in {"read", "write"} /\ ~facts.suffix_allowed THEN FALSE
        ELSE IF operation = "write" /\ facts.resolved \in StatRaises THEN TRUE
        ELSE IF operation = "write"
                /\ facts.resolved \in DOMAIN files
                /\ files[facts.resolved].size > max_file_size THEN FALSE
        ELSE TRUE

\* FileGuardian.is_allowed, in working directory dir over the files `files`; an exception
\* raised by resolve(), exists() or stat() is caught by except Exception: return False
file_is_allowed(path, operation, dir, files) ==
    LET facts == PathFacts(path, dir)
    IN  IF facts.raises THEN FALSE
        ELSE IF facts.restricted THEN FALSE
        ELSE IF operation \in {"read", "write"} /\ ~facts.suffix_allowed THEN FALSE
        ELSE IF operation = "write" /\ facts.resolved \in StatRaises THEN FALSE
        ELSE IF operation = "write"
                /\ facts.resolved \in DOMAIN files
                /\ files[facts.resolved].size > max_file_size THEN FALSE
        ELSE TRUE

\* SecurityManager.validate_file_operation
validate_file_operation(path, operation, dir, files) == file_is_allowed(path, operation, dir, files)

----------------------------------------------------------------------------
(* RateLimiter (grok/security.py)                                          *)

\* RateLimiter.limits
limits ==
    [api_calls |-> [count |-> 100, window |-> 3600],
     commands |-> [count |-> 50, window |-> 300]]

LimitTypes == {"api_calls", "commands"}

\* the requests dict once key has an entry: if key not in self.requests: self.requests[key] = []
WithKey(reqs, key) == IF key \in DOMAIN reqs THEN reqs ELSE reqs @@ (key :> <<>>)

\* a pruning that keeps a time exactly one window old
YoungerOrEqual(times, current_time, window) ==
    SelectSeq(times, LAMBDA req_time : current_time - req_time <= window)

\* the recorded times that stay: current_time - req_time < window
Younger(times, current_time, window) ==
    SelectSeq(times, LAMBDA req_time : current_time - req_time < window)

\* a check_rate_limit that records the time of a refused call as well
check_rate_limit_recording(reqs, key, limit_type, current_time) ==
    LET window == limits[limit_type].window
        kept == Younger(WithKey(reqs, key)[key], current_time, window)
    IN  [requests |-> [WithKey(reqs, key) EXCEPT ![key] = Append(kept, current_time)],
         result |-> Len(kept) < limits[limit_type].count]

\* RateLimiter.check_rate_limit: the requests dict afterwards and the value returned
check_rate_limit(reqs, key, limit_type, current_time) ==
    LET window == limits[limit_type].window
        kept == Younger(WithKey(reqs, key)[key], current_time, window)
    IN  IF Len(kept) >= limits[limit_type].count
        THEN [requests |-> [WithKey(reqs, key) EXCEPT ![key] = kept], result |-> FALSE]
        ELSE [requests |-> [WithKey(reqs, key) EXCEPT ![key] = Append(kept, current_time)],
              result |-> TRUE]

----------------------------------------------------------------------------
(* Settings persistence (grok/config.py)                                   *)

SettingsKeys == {"mode", "permissions"}

\* a settings file that holds no key
EmptySettings == [k \in SettingsKeys |-> {}]

\* load_settings: {**user_settings, **project_settings}
load_settings(user, proj) == [k \in SettingsKeys |-> IF proj[k] # {} THEN proj[k] ELSE user[k]]

TheOne(S) == CHOOSE x \in S : TRUE

\* get_mode: settings.get('mode', 'default')
get_mode(user, proj) ==
    LET settings == load_settings(user, proj)
    IN  IF settings["mode"] = {} THEN "default" ELSE TheOne(settings["mode"])

\* {'allow': [], 'deny': [], 'allowed_cmds': {}}
DefaultPermissions == [allow |-> {}, deny |-> {}, allowed_cmds |-> [d \in Dirs |-> <<>>]]

\* get_permissions: settings.get('permissions', {'allow': [], 'deny': [], 'allowed_cmds': {}})
get_permissions(user, proj) ==
    LET settings == load_settings(user, proj)
    IN  IF settings["permissions"] = {} THEN DefaultPermissions ELSE TheOne(settings["permissions"])

\* update_permissions: the user-level file after load_settings, settings['permissions'] = p, save_settings
update_permissions(user, proj, p) == [load_settings(user, proj) EXCEPT !["permissions"] = {p}]

\* set_mode: the user-level file after load_settings, settings['mode'] = m, save_settings
set_mode(user, proj, m) == [load_settings(user, proj) EXCEPT !["mode"] = {m}]

----------------------------------------------------------------------------
(* handle_tool_call (grok/tools.py)                                        *)

\* what one handle_tool_call returns and does: the 'output' of the returned record, whether
\* click.prompt was called, the processes spawned, the audit events logged, the permissions
\* dict afterwards, whether update_permissions ran, and the file written (at most one)
Result(output, prompted, spawned, events, perms, saved, written) ==
    [output |-> output, prompted |-> prompted, spawned |-> spawned, events |-> events,
     perms |-> perms, saved |-> saved, written |-> written]

Quiet(output, perms) == Result(output, FALSE, <<>>, <<>>, perms, FALSE, <<>>)

\* the call raised instead of returning
Raised == "<exception>"

\* the operator interrupts a click.prompt: click raises Abort out of the prompt
Interrupt == "<interrupt>"

\* the value of a function that ends without a return statement
None == "None"

\* x in list
InList(x, list) == \E i \in 1..Len(list) : list[i] = x

\* subprocess.check_output(cmd, shell=True, text=True) inside try/except: the captured output,
\* or str(e) when the command fails
ShellOutput(exit_ok) == IF exit_ok THEN "<command output>" ELSE "<str(e)>"

\* the run_bash branch with the allow-list looked up before the deny-list
run_bash_allow_first(m, perms, dir, cmd, choice, exit_ok) ==
    IF m = "planning" THEN Quiet("Plan to run bash", perms)
    ELSE IF ~validate_command(cmd)
    THEN Result("Command blocked for security reasons.", FALSE, <<>>,
                <<[event_type |-> "command_blocked", target |-> cmd, tool |-> "run_bash"]>>,
                perms, FALSE, <<>>)
    ELSE IF cmd \in perms.allow \/ InList(cmd, perms.allowed_cmds[dir])
    THEN Result(ShellOutput(exit_ok), FALSE, <<cmd>>, <<>>, perms, FALSE, <<>>)
    ELSE IF cmd \in perms.deny THEN Quiet("Command denied by permissions.", perms)
    ELSE Result("Command interrupted.", TRUE, <<>>, <<>>, perms, FALSE, <<>>)

\* the run_bash branch that blocks a command without logging it
run_bash_no_log(m, perms, dir, cmd, choice, exit_ok) ==
    IF m = "planning" THEN Quiet("Plan to run bash", perms)
    ELSE IF ~validate_command(cmd) THEN Quiet("Command blocked for security reasons.", perms)
    ELSE IF cmd \in perms.deny THEN Quiet("Command denied by permissions.", perms)
    ELSE IF cmd \in perms.allow \/ InList(cmd, perms.allowed_cmds[dir])
    THEN Result(ShellOutput(exit_ok), FALSE, <<cmd>>, <<>>, perms, FALSE, <<>>)
    ELSE Result("Command interrupted.", TRUE, <<>>, <<>>, perms, FALSE, <<>>)

\* the run_bash branch whose 'ya' answer runs the command without remembering it
run_bash_forgetful(m, perms, dir, cmd, choice, exit_ok) ==
    IF m = "planning" THEN Quiet("Plan to run bash", perms)
    ELSE IF ~validate_command(cmd)
    THEN Result("Command blocked for security reasons.", FALSE, <<>>,
                <<[event_type |-> "command_blocked", target |-> cmd, tool |-> "run_bash"]>>,
                perms, FALSE, <<>>)
    ELSE IF cmd \in perms.deny THEN Quiet("Command denied by permissions.", perms)
    ELSE IF cmd \in perms.allow \/ InList(cmd, perms.allowed_cmds[dir])
    THEN Result(ShellOutput(exit_ok), FALSE, <<cmd>>, <<>>, perms, FALSE, <<>>)
    ELSE IF choice \in {"y", "ya"}
    THEN Result(ShellOutput(exit_ok), TRUE, <<cmd>>, <<>>, perms, FALSE, <<>>)
    ELSE Result("Command interrupted.", TRUE, <<>>, <<>>, perms, FALSE, <<>>)

\* the run_bash branch whose 'y' answer remembers the command as 'ya' does
run_bash_y_remembers(m, perms, dir, cmd, choice, exit_ok) ==
    IF m = "planning" THEN Quiet("Plan to run bash", perms)
    ELSE IF ~validate_command(cmd)
    THEN Result("Command blocked for security reasons.", FALSE, <<>>,
                <<[event_type |-> "command_blocked", target |-> cmd, tool |-> "run_bash"]>>,
                perms, FALSE, <<>>)
    ELSE IF cmd \in perms.deny THEN Quiet("Command denied by permissions.", perms)
    ELSE IF cmd \in perms.allow \/ InList(cmd, perms.allowed_cmds[dir])
    THEN Result(ShellOutput(exit_ok), FALSE, <<cmd>>, <<>>, perms, FALSE, <<>>)
    ELSE IF choice \in {"y", "ya"}
    THEN Result(ShellOutput(exit_ok), TRUE, <<cmd>>, <<>>,
                [perms EXCEPT !.allowed_cmds[dir] = Append(perms.allowed_cmds[dir], cmd)],
                TRUE, <<>>)
    ELSE Result("Command interrupted.", TRUE, <<>>, <<>>, perms, FALSE, <<>>)

\* the run_bash branch that looks a command up in the remembered commands of every project
run_bash_any_project(m, perms, dir, cmd, choice, exit_ok) ==
    IF m = "planning" THEN Quiet("Plan to run bash", perms)
    ELSE IF ~validate_command(cmd)
    THEN Result("Command blocked for security reasons.", FALSE, <<>>,
                <<[event_type |-> "command_blocked", target |-> cmd, tool |-> "run_bash"]>>,
                perms, FALSE, <<>>)
    ELSE IF cmd \in perms.deny THEN Quiet("Command denied by permissions.", perms)
    ELSE IF cmd \in perms.allow \/ \E d \in DOMAIN perms.allowed_cmds : InList(cmd, perms.allowed_cmds[d])
    THEN Result(ShellOutput(exit_ok), FALSE, <<cmd>>, <<>>, perms, FALSE, <<>>)
    ELSE IF choice = "y"
    THEN Result(ShellOutput(exit_ok), TRUE, <<cmd>>, <<>>, perms, FALSE, <<>>)
    ELSE IF choice = "ya"
    THEN Result(ShellOutput(exit_ok), TRUE, <<cmd>>, <<>>,
                [perms EXCEPT !.allowed_cmds[dir] = Append(perms.allowed_cmds[dir], cmd)],
                TRUE, <<>>)
    ELSE Result("Command interrupted.", TRUE, <<>>, <<>>, perms, FALSE, <<>>)

\* the run_bash branch without the planning short-circuit
run_bash_no_plan(m, perms, dir, cmd, choice, exit_ok) ==
    IF ~validate_command(cmd)
    THEN Result("Command blocked for security reasons.", FALSE, <<>>,
                <<[event_type |-> "command_blocked", target |-> cmd, tool |-> "run_bash"]>>,
                perms, FALSE, <<>>)
    ELSE IF cmd \in perms.deny THEN Quiet("Command denied by permissions.", perms)
    ELSE IF cmd \in perms.allow \/ InList(cmd, perms.allowed_cmds[dir])
    THEN Result(ShellOutput(exit_ok), FALSE, <<cmd>>, <<>>, perms, FALSE, <<>>)
    ELSE IF choice = "y"
    THEN Result(ShellOutput(exit_ok), TRUE, <<cmd>>, <<>>, perms, FALSE, <<>>)
    ELSE IF choice = "ya"
    THEN Result(ShellOutput(exit_ok), TRUE, <<cmd>>, <<>>,
                [perms EXCEPT !.allowed_cmds[dir] = Append(perms.allowed_cmds[dir], cmd)],
                TRUE, <<>>)
    ELSE Result("Command interrupted.", TRUE, <<>>, <<>>, perms, FALSE, <<>>)

\* handle_tool_call, func_name == "run_bash": mode m, permissions perms, os.getcwd() dir,
\* args['cmd'] cmd; choice is the operator's lower-cased answer should the prompt be shown,
\* exit_ok whether the command, should it run, exits with status 0
run_bash(m, perms, dir, cmd, choice, exit_ok) ==
    IF m = "planning" THEN Quiet("Plan to run bash", perms)
    ELSE IF ~validate_command(cmd)
    THEN Result("Command blocked for security reasons.", FALSE, <<>>,
                <<[event_type |-> "command_blocked", target |-> cmd, tool |-> "run_bash"]>>,
                perms, FALSE, <<>>)
    ELSE IF cmd \in perms.deny THEN Quiet("Command denied by permissions.", perms)
    ELSE IF cmd \in perms.allow \/ InList(cmd, perms.allowed_cmds[dir])
    THEN Result(ShellOutput(exit_ok), FALSE, <<cmd>>, <<>>, perms, FALSE, <<>>)
    ELSE IF choice = "y"
    THEN Result(ShellOutput(exit_ok), TRUE, <<cmd>>, <<>>, perms, FALSE, <<>>)
    ELSE IF choice = "ya"
    THEN Result(ShellOutput(exit_ok), TRUE, <<cmd>>, <<>>,
                [perms EXCEPT !.allowed_cmds[dir] = Append(perms.allowed_cmds[dir], cmd)],
                TRUE, <<>>)
    ELSE Result("Command interrupted.", TRUE, <<>>, <<>>, perms, FALSE, <<>>)

\* the editor process of the default mode: subprocess.call(["code", "--diff", "--wait", ...])
CodeDiff == <<"c", "o", "d", "e", " ", "-", "-", "d", "i", "f", "f">>

\* the edit_file branch without the planning short-circuit
edit_file_no_plan(m, perms, dir, files, path, content, accept, code_ok) ==
    IF ~validate_file_operation(path, "write", dir, files)
    THEN Result("File access denied for security reasons.", FALSE, <<>>,
                <<[event_type |-> "file_access_denied", target |-> path, tool |-> "edit_file"]>>,
                perms, FALSE, <<>>)
    ELSE IF Canonical(PathJoin(dir, path), dir) \notin DOMAIN files
    THEN Quiet("File does not exist.", perms)
    ELSE Result("Edit applied automatically.", FALSE, <<>>, <<>>, perms, FALSE,
                <<[path |-> Canonical(PathJoin(dir, path), dir), content |-> validate_input(content).text]>>)

\* the edit_file branch that presents the diff and asks in auto-complete mode as in default mode
edit_file_always_asks(m, perms, dir, files, path, content, accept, code_ok) ==
    IF m = "planning" THEN Quiet("Plan to edit", perms)
    ELSE IF ~validate_file_operation(path, "write", dir, files)
    THEN Result("File access denied for security reasons.", FALSE, <<>>,
                <<[event_type |-> "file_access_denied", target |-> path, tool |-> "edit_file"]>>,
                perms, FALSE, <<>>)
    ELSE LET sanitized == validate_input(content)
             target == Canonical(PathJoin(dir, path), dir)
         IN  IF ~sanitized.ok
             THEN Result("Input validation failed", FALSE, <<>>,
                         <<[event_type |-> "input_validation_failed", target |-> <<>>, tool |-> "edit_file"]>>,
                         perms, FALSE, <<>>)
             ELSE IF target \notin DOMAIN files THEN Quiet("File does not exist.", perms)
             ELSE IF ~code_ok THEN Quiet(Raised, perms)
             ELSE IF accept = "y"
             THEN Result("Edit applied.", TRUE, <<CodeDiff>>, <<>>, perms, FALSE,
                         <<[path |-> target, content |-> sanitized.text]>>)
             ELSE Result("Edit rejected.", TRUE, <<CodeDiff>>, <<>>, perms, FALSE, <<>>)

\* the edit_file branch whose prompt takes 'ya' for an acceptance as well
edit_file_ya_accepts(m, perms, dir, files, path, content, accept, code_ok) ==
    IF m = "planning" THEN Quiet("Plan to edit", perms)
    ELSE IF ~validate_file_operation(path, "write", dir, files)
    THEN Result("File access denied for security reasons.", FALSE, <<>>,
                <<[event_type |-> "file_access_denied", target |-> path, tool |-> "edit_file"]>>,
                perms, FALSE, <<>>)
    ELSE LET sanitized == validate_input(content)
             target == Canonical(PathJoin(dir, path), dir)
         IN  IF ~sanitized.ok
             THEN Result("Input validation failed", FALSE, <<>>,
                         <<[event_type |-> "input_validation_failed", target |-> <<>>, tool |-> "edit_file"]>>,
                         perms, FALSE, <<>>)
             ELSE IF target \notin DOMAIN files THEN Quiet("File does not exist.", perms)
             ELSE IF m = "default"
             THEN IF ~code_ok THEN Quiet(Raised, perms)
                  ELSE IF accept \in {"y", "ya"}
                  THEN Result("Edit applied.", TRUE, <<CodeDiff>>, <<>>, perms, FALSE,
                              <<[path |-> target, content |-> sanitized.text]>>)
                  ELSE Result("Edit rejected.", TRUE, <<CodeDiff>>, <<>>, perms, FALSE, <<>>)
             ELSE IF m = "auto-complete"
             THEN Result("Edit applied automatically.", FALSE, <<>>, <<>>, perms, FALSE,
                         <<[path |-> target, content |-> sanitized.text]>>)
             ELSE Quiet(None, perms)

\* the edit_file branch that writes the payload as the tool call carries it
edit_file_raw(m, perms, dir, files, path, content, accept, code_ok) ==
    IF m = "planning" THEN Quiet("Plan to edit", perms)
    ELSE IF ~validate_file_operation(path, "write", dir, files)
    THEN Result("File access denied for security reasons.", FALSE, <<>>,
                <<[event_type |-> "file_access_denied", target |-> path, tool |-> "edit_file"]>>,
                perms, FALSE, <<>>)
    ELSE LET sanitized == validate_input(content)
             target == Canonical(PathJoin(dir, path), dir)
         IN  IF ~sanitized.ok
             THEN Result("Input validation failed", FALSE, <<>>,
                         <<[event_type |-> "input_validation_failed", target |-> <<>>, tool |-> "edit_file"]>>,
                         perms, FALSE, <<>>)
             ELSE IF target \notin DOMAIN files THEN Quiet("File does not exist.", perms)
             ELSE IF m = "default"
             THEN IF ~code_ok THEN Quiet(Raised, perms)
                  ELSE IF accept = "y"
                  THEN Result("Edit applied.", TRUE, <<CodeDiff>>, <<>>, perms, FALSE,
                              <<[path |-> target, content |-> content]>>)
                  ELSE Result("Edit rejected.", TRUE, <<CodeDiff>>, <<>>, perms, FALSE, <<>>)
             ELSE IF m = "auto-complete"
             THEN Result("Edit applied automatically.", FALSE, <<>>, <<>>, perms, FALSE,
                         <<[path |-> target, content |-> content]>>)
             ELSE Quiet(None, perms)

\* handle_tool_call, func_name == "edit_file": mode m, permissions perms (not read),
\* os.getcwd() dir, the files of the machine, args['path'] and args['content']; accept is the
\* operator's lower-cased answer should the prompt be shown, code_ok whether the editor
\* process can be started
edit_file(m, perms, dir, files, path, content, accept, code_ok) ==
    IF m = "planning" THEN Quiet("Plan to edit", perms)
    ELSE IF ~validate_file_operation(path, "write", dir, files)
    THEN Result("File access denied for security reasons.", FALSE, <<>>,
                <<[event_type |-> "file_access_denied", target |-> path, tool |-> "edit_file"]>>,
                perms, FALSE, <<>>)
    ELSE LET sanitized == validate_input(content)
             full_path == PathJoin(dir, path)
             target == Canonical(full_path, dir)
         IN  IF ~sanitized.ok
             THEN Result("Input validation failed", FALSE, <<>>,
                         <<[event_type |-> "input_validation_failed", target |-> <<>>, tool |-> "edit_file"]>>,
                         perms, FALSE, <<>>)
             ELSE IF target \notin DOMAIN files THEN Quiet("File does not exist.", perms)
             ELSE IF m = "default"
             THEN IF ~code_ok THEN Quiet(Raised, perms)
                  ELSE IF accept = "y"
                  THEN Result("Edit applied.", TRUE, <<CodeDiff>>, <<>>, perms, FALSE,
                              <<[path |-> target, content |-> sanitized.text]>>)
                  ELSE Result("Edit rejected.", TRUE, <<CodeDiff>>, <<>>, perms, FALSE, <<>>)
             ELSE IF m = "auto-complete"
             THEN Result("Edit applied automatically.", FALSE, <<>>, <<>>, perms, FALSE,
                         <<[path |-> target, content |-> sanitized.text]>>)
             ELSE Quiet(None, perms)

\* the methods of security_manager a handle_tool_call reaches before it returns: none in
\* planning mode, validate_command for run_bash, validate_file_operation for edit_file and
\* validate_input after it when the path is accepted
validators_run(tool, m, dir, files, target) ==
    IF m = "planning" THEN {}
    ELSE IF tool = "run_bash" THEN {"validate_command"}
    ELSE IF validate_file_operation(target, "write", dir, files)
    THEN {"validate_file_operation", "validate_input"}
    ELSE {"validate_file_operation"}

\* handle_tool_call(tool_call, mode, permissions) on the edit_file and run_bash branches and
\* on a name no branch tests: func_name is tool_call.function.name; well_formed tells whether
\* json.loads parses tool_call.function.arguments into an object holding the keys the branch
\* subscripts (when not, line 121, 124, 125 or 172 raises); target is args['path'] or
\* args['cmd'], content args['content']; answer is what click.prompt returns, or Interrupt
\* when it raises Abort; ok as in edit_file and run_bash. No statement of the function is
\* inside a try block except validate_input and check_output.
handle_tool_call(func_name, well_formed, m, perms, dir, files, target, content, answer, ok) ==
    IF ~well_formed THEN Quiet(Raised, perms)
    ELSE IF func_name = "edit_file"
    THEN LET r == edit_file(m, perms, dir, files, target, content, answer, ok)
         IN  IF r.prompted /\ answer = Interrupt
             THEN Result(Raised, TRUE, r.spawned, <<>>, perms, FALSE, <<>>)
             ELSE r
    ELSE IF func_name = "run_bash"
    THEN LET r == run_bash(m, perms, dir, target, answer, ok)
         IN  IF r.prompted /\ answer = Interrupt
             THEN Result(Raised, TRUE, <<>>, <<>>, perms, FALSE, <<>>)
             ELSE r
    ELSE Quiet(None, perms)

\* str(n) of an exit status
RECURSIVE Decimal(_)
Decimal(n) ==
    LET digit == <<"0", "1", "2", "3", "4", "5", "6", "7", "8", "9">>[(n % 10) + 1]
    IN  IF n < 10 THEN <<digit>> ELSE Decimal(n \div 10) \o <<digit>>

\* str(e) of the CalledProcessError check_output raises for an exit status other than 0
NonZeroExit(cmd, status) ==
    <<"C", "o", "m", "m", "a", "n", "d", " ", "'">> \o cmd
    \o <<"'", " ", "r", "e", "t", "u", "r", "n", "e", "d", " ", "n", "o", "n", "-", "z", "e", "r", "o", " ",
         "e", "x", "i", "t", " ", "s", "t", "a", "t", "u", "s", " ">>
    \o Decimal(status) \o <<".">>

\* the 'output' handle_tool_call returns for a command it ran, lines 190-194, 198-202 and
\* 207-211: subprocess.check_output(cmd, shell=True, text=True) captures the standard output
\* only (the standard error stays the one of the process) and returns it when the exit
\* status is 0; otherwise it raises and the except clause returns str(e)
check_output(cmd, run) ==
    IF run.status = 0 THEN run.stdout ELSE NonZeroExit(cmd, run.status)

----------------------------------------------------------------------------
(* The inspection tools: FileOperations (grok/file_operations.py) under    *)
(* handle_tool_call                                                        *)

InspectionTools == {"read_file", "list_files", "find_files", "grep_files"}

MAX_FILE_SIZE_READ == 10485760

LF == "\n"

\* the regular files at or below the canonical directory p: the files of Path.rglob('*')
FilesBelow(p, files) ==
    {f \in DOMAIN files : StartsWith(f, IF p = <<"/">> THEN p ELSE p \o <<"/">>)}

\* Path.is_dir(): the project directories and every directory that holds a file
IsDir(p, files) == p \in Dirs \/ FilesBelow(p, files) # {}

\* Path.exists()
Exists(p, files) == p \in DOMAIN files \/ IsDir(p, files)

\* Path.name
Name(p) == Components(p)[Len(Components(p))]

\* str.splitlines() on texts whose only line break is LF
RECURSIVE LinesFrom(_, _)
LinesFrom(s, i) ==
    IF i > Len(s) THEN <<>>
    ELSE LET breaks == {j \in i..Len(s) : s[j] = LF}
         IN  IF breaks = {} THEN <<SubSeq(s, i, Len(s))>>
             ELSE <<SubSeq(s, i, MinOf(breaks) - 1)>> \o LinesFrom(s, MinOf(breaks) + 1)

Lines(s) == LinesFrom(s, 1)

\* re.compile(lit, re.IGNORECASE).search(text) for a pattern of lower-case letters
Search(text, lit) == \E i \in 1..(Len(text) + 1) : MatchAt(text, i, lit)

\* the entry of a directory through which the file f below p is reached
ChildOf(p, f) ==
    LET base == IF p = <<"/">> THEN p ELSE p \o <<"/">>
    IN  base \o Components(SubSeq(f, Len(base) + 1, Len(f)))[1]

\* what a FileOperations method returns and does: 'success' or the text of the 'error' key,
\* the entries of the result, and the audit events logged
Inspection(output, data, events) == [output |-> output, data |-> data, events |-> events]

Entry(path, line, text) == [path |-> path, line |-> line, text |-> text]

\* FileOperations.read_file(file_path) with the default arguments
read_file(dir, files, file_path) ==
    LET facts == PathFacts(file_path, dir)
        path == facts.resolved
    IN  IF facts.raises
        THEN Inspection("Error reading file", {},
                        <<[event_type |-> "file_read_error", target |-> file_path, tool |-> "read_file"]>>)
        ELSE IF ~validate_file_operation(path, "read", dir, files)
        THEN Inspection("File access denied for security reasons", {},
                        <<[event_type |-> "file_read_denied", target |-> path, tool |-> "read_file"]>>)
        ELSE IF ~Exists(path, files) THEN Inspection("File not found", {}, <<>>)
        ELSE IF IsDir(path, files) THEN Inspection("Path is a directory", {}, <<>>)
        ELSE IF files[path].size > MAX_FILE_SIZE_READ
        THEN Inspection("Error reading file", {},
                        <<[event_type |-> "file_read_error", target |-> file_path, tool |-> "read_file"]>>)
        ELSE Inspection("success", {Entry(path, 0, JoinWith(Lines(files[path].content), <<LF>>))}, <<>>)

\* FileOperations.list_files(directory_path) with the default arguments: the entries of the
\* directory whose name does not start with a dot
list_files(dir, files, directory_path) ==
    LET facts == PathFacts(directory_path, dir)
        path == facts.resolved
    IN  IF facts.raises
        THEN Inspection("Error listing directory", {},
                        <<[event_type |-> "directory_list_error", target |-> directory_path, tool |-> "list_files"]>>)
        ELSE IF ~validate_file_operation(path, "list", dir, files)
        THEN Inspection("Directory access denied for security reasons", {},
                        <<[event_type |-> "directory_list_denied", target |-> path, tool |-> "list_files"]>>)
        ELSE IF ~Exists(path, files) THEN Inspection("Directory not found", {}, <<>>)
        ELSE IF ~IsDir(path, files) THEN Inspection("Path is not a directory", {}, <<>>)
        ELSE Inspection("success",
                        {Entry(ChildOf(path, f), 0, <<>>) :
                            f \in {g \in FilesBelow(path, files) : Name(ChildOf(path, g))[1] # "."}},
                        <<>>)

\* FileOperations.find_files(search_pattern) with the default arguments: search_path is ".",
\* the pattern is searched in the file names, ignoring case
find_files(dir, files, search_pattern) ==
    LET path == Resolve(<<".">>, dir)
    IN  IF ~validate_file_operation(path, "search", dir, files)
        THEN Inspection("File search denied for security reasons", {},
                        <<[event_type |-> "file_search_denied", target |-> path, tool |-> "find_files"]>>)
        ELSE IF ~Exists(path, files) THEN Inspection("Search path not found", {}, <<>>)
        ELSE Inspection("success",
                        {Entry(f, 0, Name(f)) :
                            f \in {g \in FilesBelow(path, files) : Search(Name(g), search_pattern)}},
                        <<>>)

\* FileOperations.grep_files(search_pattern) with the default arguments: search_path is ".",
\* the pattern is searched in every line of every file that safe_file_read can read
grep_files(dir, files, search_pattern) ==
    LET path == Resolve(<<".">>, dir)
    IN  IF ~validate_file_operation(path, "grep", dir, files)
        THEN Inspection("Content search denied for security reasons", {},
                        <<[event_type |-> "grep_denied", target |-> path, tool |-> "grep_files"]>>)
        ELSE IF ~Exists(path, files) THEN Inspection("Search path not found", {}, <<>>)
        ELSE Inspection("success",
                        {Entry(f, n, Lines(files[f].content)[n]) :
                            <<f, n>> \in
                                {fn \in UNION {{g} \X (1..Len(Lines(files[g].content))) :
                                                  g \in {h \in FilesBelow(path, files) :
                                                             files[h].size <= MAX_FILE_SIZE_READ}} :
                                    Search(Lines(files[fn[1]].content)[fn[2]], search_pattern)}},
                        <<>>)

\* the method of file_ops behind each inspection tool
file_ops(tool, dir, files, arg) ==
    IF tool = "read_file" THEN read_file(dir, files, arg)
    ELSE IF tool = "list_files" THEN list_files(dir, files, arg)
    ELSE IF tool = "find_files" THEN find_files(dir, files, arg)
    ELSE grep_files(dir, files, arg)

\* the record returned in planning mode
PlanToInspect(tool) ==
    IF tool = "read_file" THEN "Plan to read file"
    ELSE IF tool = "list_files" THEN "Plan to list files"
    ELSE IF tool = "find_files" THEN "Plan to find files"
    ELSE "Plan to search for pattern"

\* handle_tool_call, func_name one of the inspection tools: the plan record in planning
\* mode, the result of the file_ops method otherwise (its rendering by json.dumps is not
\* modelled: the result keeps its fields)
inspect(tool, m, dir, files, arg) ==
    IF m = "planning" THEN Inspection(PlanToInspect(tool), {}, <<>>)
    ELSE file_ops(tool, dir, files, arg)

----------------------------------------------------------------------------
(* fetch_from_mcp (grok/agent.py): the one-shot auxiliary-tool protocol    *)

Quote == "\""

\* the whitespace json.loads skips
JsonWS == {" ", LF, "\t", "\r"}

\* the first index >= i of s that holds no JSON whitespace (Len(s)+1 when there is none)
SkipJsonWS(s, i) ==
    LET rest == {j \in i..Len(s) : s[j] \notin JsonWS}
    IN  IF rest = {} THEN Len(s) + 1 ELSE MinOf(rest)

\* the values json.loads builds: a str, None/True/False, a list or a dict (key, value pairs
\* in the order of the text)
JsonValue(kind, text, members) == [kind |-> kind, text |-> text, members |-> members]

\* the parser stopped: json.JSONDecodeError
NoParse == [ok |-> FALSE, value |-> JsonValue("none", <<>>, <<>>), next |-> 0]

Parsed(value, next) == [ok |-> TRUE, value |-> value, next |-> next]

\* a string at index i: the characters up to the next quote, none of them a line break
\* (texts with a backslash are outside the model)
ParseString(s, i) ==
    IF i > Len(s) \/ s[i] # Quote THEN NoParse
    ELSE LET quotes == {j \in (i + 1)..Len(s) : s[j] = Quote}
         IN  IF quotes = {} THEN NoParse
             ELSE IF \E j \in (i + 1)..(MinOf(quotes) - 1) : s[j] \in {LF, "\t", "\r"} THEN NoParse
             ELSE Parsed(JsonValue("string", SubSeq(s, i + 1, MinOf(quotes) - 1), <<>>),
                         MinOf(quotes) + 1)

\* the literal lit stands at index i
LiteralAt(s, i, lit) == i + Len(lit) - 1 <= Len(s) /\ SubSeq(s, i, i + Len(lit) - 1) = lit

RECURSIVE ParseValue(_, _)
RECURSIVE ParseMembers(_, _, _)
RECURSIVE ParseItems(_, _, _)

\* after the key of a member: the colon, the value, then a comma or the closing brace
MemberAfterValue(s, key, v, acc) ==
    IF ~v.ok THEN NoParse
    ELSE IF SkipJsonWS(s, v.next) > Len(s) THEN NoParse
    ELSE IF s[SkipJsonWS(s, v.next)] = ","
    THEN ParseMembers(s, SkipJsonWS(s, v.next) + 1, Append(acc, [key |-> key, value |-> v.value]))
    ELSE IF s[SkipJsonWS(s, v.next)] = "}"
    THEN Parsed(JsonValue("object", <<>>, Append(acc, [key |-> key, value |-> v.value])),
                SkipJsonWS(s, v.next) + 1)
    ELSE NoParse

MemberAfterKey(s, k, acc) ==
    IF ~k.ok THEN NoParse
    ELSE IF SkipJsonWS(s, k.next) > Len(s) THEN NoParse
    ELSE IF s[SkipJsonWS(s, k.next)] # ":" THEN NoParse
    ELSE MemberAfterValue(s, k.value.text, ParseValue(s, SkipJsonWS(s, k.next) + 1), acc)

\* the members of an object from index i on, acc holding the members before
ParseMembers(s, i, acc) == MemberAfterKey(s, ParseString(s, SkipJsonWS(s, i)), acc)

\* after an item of an array: a comma or the closing bracket
ItemAfterValue(s, v, acc) ==
    IF ~v.ok THEN NoParse
    ELSE IF SkipJsonWS(s, v.next) > Len(s) THEN NoParse
    ELSE IF s[SkipJsonWS(s, v.next)] = ","
    THEN ParseItems(s, SkipJsonWS(s, v.next) + 1, Append(acc, v.value))
    ELSE IF s[SkipJsonWS(s, v.next)] = "]"
    THEN Parsed(JsonValue("array", <<>>, Append(acc, v.value)), SkipJsonWS(s, v.next) + 1)
    ELSE NoParse

ParseItems(s, i, acc) == ItemAfterValue(s, ParseValue(s, i), acc)

\* the value that starts at index i, whitespace skipped
ValueAt(s, i) ==
    IF i > Len(s) THEN NoParse
    ELSE IF s[i] = Quote THEN ParseString(s, i)
    ELSE IF s[i] = "{"
    THEN IF SkipJsonWS(s, i + 1) <= Len(s) /\ s[SkipJsonWS(s, i + 1)] = "}"
         THEN Parsed(JsonValue("object", <<>>, <<>>), SkipJsonWS(s, i + 1) + 1)
         ELSE ParseMembers(s, i + 1, <<>>)
    ELSE IF s[i] = "["
    THEN IF SkipJsonWS(s, i + 1) <= Len(s) /\ s[SkipJsonWS(s, i + 1)] = "]"
         THEN Parsed(JsonValue("array", <<>>, <<>>), SkipJsonWS(s, i + 1) + 1)
         ELSE ParseItems(s, i + 1, <<>>)
    ELSE IF LiteralAt(s, i, <<"n", "u", "l", "l">>) THEN Parsed(JsonValue("null", <<>>, <<>>), i + 4)
    ELSE IF LiteralAt(s, i, <<"t", "r", "u", "e">>) THEN Parsed(JsonValue("true", <<>>, <<>>), i + 4)
    ELSE IF LiteralAt(s, i, <<"f", "a", "l", "s", "e">>) THEN Parsed(JsonValue("false", <<>>, <<>>), i + 5)
    ELSE NoParse

ParseValue(s, i) == ValueAt(s, SkipJsonWS(s, i))

\* the whole text is one value (numbers are outside the model)
WholeText(s, v) == IF v.ok /\ SkipJsonWS(s, v.next) > Len(s) THEN v ELSE NoParse

\* json.loads(s): ok is FALSE when it raises
json_loads(s) == WholeText(s, ParseValue(s, 1))

\* dict[key] where duplicate keys keep the last value
Member(members, key) ==
    members[CHOOSE i \in 1..Len(members) :
                /\ members[i].key = key
                /\ \A j \in (i + 1)..Len(members) : members[j].key # key].value

HasMember(members, key) == \E i \in 1..Len(members) : members[i].key = key

\* str(value) of a str, None, True or False (the members of the model hold no list or dict)
Str(value) ==
    IF value.kind = "string" THEN value.text
    ELSE IF value.kind = "null" THEN <<"N", "o", "n", "e">>
    ELSE IF value.kind = "true" THEN <<"T", "r", "u", "e">>
    ELSE <<"F", "a", "l", "s", "e">>

ErrorKey == <<"e", "r", "r", "o", "r">>
ResultKey == <<"r", "e", "s", "u", "l", "t">>
ErrorPrefix == <<"E", "r", "r", "o", "r", ":", " ">>

\* the auxiliary servers of the settings files: one over stdio, one over another transport
mcp_servers ==
    (<<"d", "o", "c", "s">> :> [transport |-> "stdio"]) @@ (<<"w", "e", "b">> :> [transport |-> "http"])

\* what one fetch_from_mcp returns and does: whether Popen ran, the requests written to the
\* child's stdin, whether stdin was closed, whether wait() ran, the returned value
Fetched(spawned, written, closed, waited, result) ==
    [spawned |-> spawned, written |-> written, closed |-> closed, waited |-> waited,
     result |-> result]

\* lines 62-68 on the parsed output: res is a dict, or the tests on it raise and the bare
\* except returns the output
answer_of(res, output) ==
    IF ~res.ok THEN output
    ELSE IF res.value.kind # "object" THEN output
    ELSE IF HasMember(res.value.members, ErrorKey)
    THEN ErrorPrefix \o Str(Member(res.value.members, ErrorKey))
    ELSE IF HasMember(res.value.members, ResultKey)
    THEN Str(Member(res.value.members, ResultKey))
    ELSE <<>>

\* a fetch_from_mcp that returns the result member without looking for an error member
fetch_from_mcp_ignoring_error(servers, server, action_type, output, error) ==
    IF server \notin DOMAIN servers THEN Fetched(FALSE, 0, FALSE, FALSE, <<"U", "n", "k", "n", "o", "w", "n", " ", "M", "C", "P", " ", "s", "e", "r", "v", "e", "r", ":", " ">> \o server)
    ELSE IF servers[server].transport # "stdio"
    THEN Fetched(FALSE, 0, FALSE, FALSE, <<"T", "r", "a", "n", "s", "p", "o", "r", "t", " ", "n", "o", "t", " ", "i", "m", "p", "l", "e", "m", "e", "n", "t", "e", "d">>)
    ELSE IF action_type \notin {"resource", "prompt"}
    THEN Fetched(TRUE, 0, FALSE, FALSE, <<"U", "n", "k", "n", "o", "w", "n", " ", "a", "c", "t", "i", "o", "n">>)
    ELSE IF error # <<>> THEN Fetched(TRUE, 1, TRUE, TRUE, ErrorPrefix \o error)
    ELSE IF json_loads(output).ok /\ json_loads(output).value.kind = "object"
            /\ HasMember(json_loads(output).value.members, ResultKey)
    THEN Fetched(TRUE, 1, TRUE, TRUE, Str(Member(json_loads(output).value.members, ResultKey)))
    ELSE Fetched(TRUE, 1, TRUE, TRUE, <<>>)

\* fetch_from_mcp(server, action_type, *args) with get_mcp_servers() = servers, when the
\* subprocess writes output to its stdout and error to its stderr
fetch_from_mcp(servers, server, action_type, output, error) ==
    IF server \notin DOMAIN servers THEN Fetched(FALSE, 0, FALSE, FALSE, <<"U", "n", "k", "n", "o", "w", "n", " ", "M", "C", "P", " ", "s", "e", "r", "v", "e", "r", ":", " ">> \o server)
    ELSE IF servers[server].transport # "stdio"
    THEN Fetched(FALSE, 0, FALSE, FALSE, <<"T", "r", "a", "n", "s", "p", "o", "r", "t", " ", "n", "o", "t", " ", "i", "m", "p", "l", "e", "m", "e", "n", "t", "e", "d">>)
    ELSE IF action_type \notin {"resource", "prompt"}
    THEN Fetched(TRUE, 0, FALSE, FALSE, <<"U", "n", "k", "n", "o", "w", "n", " ", "a", "c", "t", "i", "o", "n">>)
    ELSE IF error # <<>> THEN Fetched(TRUE, 1, TRUE, TRUE, ErrorPrefix \o error)
    ELSE Fetched(TRUE, 1, TRUE, TRUE, answer_of(json_loads(output), output))

----------------------------------------------------------------------------
(* The operator's input: main.cli (grok/main.py), agent_loop              *)
(* (grok/agent.py) and handle_slash_command (grok/slash_commands.py)       *)

\* the names bound at module level in grok/agent.py: its imports (lines 2-9) and its
\* definitions; a function of the module that uses another global name raises NameError
agent_globals ==
    {"openai", "re", "json", "subprocess", "os", "load_settings", "get_mode", "get_mcp_servers",
     "get_permissions", "TOOLS", "handle_tool_call", "prompt", "PromptSession", "session",
     "SYSTEM_PROMPT", "call_api", "fetch_from_mcp", "agent_loop"}

\* the names bound at module level in grok/main.py (lines 2-8, 14)
main_globals ==
    {"click", "PromptSession", "agent_loop", "get_api_key", "handle_slash_command", "session",
     "cli"}

\* the modes as the operator types them
ModeText ==
    ("default" :> <<"d", "e", "f", "a", "u", "l", "t">>)
    @@ ("auto-complete" :> <<"a", "u", "t", "o", "-", "c", "o", "m", "p", "l", "e", "t", "e">>)
    @@ ("planning" :> <<"p", "l", "a", "n", "n", "i", "n", "g">>)

\* a mode no branch of handle_tool_call tests
UnknownMode == "<unknown mode>"

\* the mode a settings file holds after set_mode(text)
ModeName(text) ==
    IF \E m \in DOMAIN ModeText : ModeText[m] = text
    THEN CHOOSE m \in DOMAIN ModeText : ModeText[m] = text
    ELSE UnknownMode

\* str.split(sep, 1)
SplitOnce(s, sep) ==
    LET at == {i \in 1..(Len(s) - Len(sep) + 1) : SubSeq(s, i, i + Len(sep) - 1) = sep}
    IN  IF at = {} THEN <<s>>
        ELSE <<SubSeq(s, 1, MinOf(at) - 1), SubSeq(s, MinOf(at) + Len(sep), Len(s))>>

\* what handle_slash_command leaves behind: the user-level settings file and the history
Dispatched(user, history) == [user |-> user, history |-> history]

\* handle_slash_command whose mode branch stores its argument unchecked
handle_slash_command_unchecked(command, history, user, proj) ==
    LET parts == Split(command)
        cmd == Lower(Tail(parts[1]))
        args == JoinWith(Tail(parts), <<" ">>)
    IN  IF cmd = <<"m", "o", "d", "e">>
        THEN Dispatched(set_mode(user, proj, ModeName(args)), history)
        ELSE IF cmd = <<"c", "l", "e", "a", "r">> THEN Dispatched(user, <<>>)
        ELSE Dispatched(user, history)

\* handle_slash_command(command, history) on the branches mode (lines 51-56), clear (47-49)
\* and the last one (109-115) in a project without custom command files, where
\* get_custom_prompt returns None: cmd = parts[0][1:].lower(), args = ' '.join(parts[1:])
handle_slash_command(command, history, user, proj) ==
    LET parts == Split(command)
        cmd == Lower(Tail(parts[1]))
        args == JoinWith(Tail(parts), <<" ">>)
    IN  IF cmd = <<"m", "o", "d", "e">>
        THEN IF \E m \in DOMAIN ModeText : ModeText[m] = args
             THEN Dispatched(set_mode(user, proj, ModeName(args)), history)
             ELSE Dispatched(user, history)
        ELSE IF cmd = <<"c", "l", "e", "a", "r">> THEN Dispatched(user, <<>>)
        ELSE Dispatched(user, history)

\* what cli leaves behind before it calls agent_loop: whether it raised, the user-level file
Started(raised, user) == [raised |-> raised, user |-> user]

\* cli(mode, print, prompt) of grok/main.py up to the call of agent_loop, for a machine that
\* holds an API key: with a --mode option line 16 calls set_mode, a name main.py never binds
cli(option, user, proj) ==
    IF option = <<>> THEN Started(FALSE, user)
    ELSE IF "set_mode" \notin main_globals THEN Started(TRUE, user)
    ELSE Started(FALSE, set_mode(user, proj, ModeName(option)))

\* one round of agent_loop at the prompt, lines 82-110
Entered(raised, history, user, fetched) ==
    [raised |-> raised, history |-> history, user |-> user, fetched |-> fetched]

\* f"Plan to execute prompt {prompt_name} on {server} with args: {args}"
PlanToExecute(prompt_name, server, args) ==
    <<"P", "l", "a", "n", " ", "t", "o", " ", "e", "x", "e", "c", "u", "t", "e", " ", "p", "r", "o", "m", "p", "t", " ">> \o prompt_name \o <<" ", "o", "n", " ">> \o server \o <<" ", "w", "i", "t", "h", " ", "a", "r", "g", "s", ":", " ">> \o args

\* lines 97-108: the input is /mcp__<server>__<prompt> <args>
mcp_prompt(user_input, m, history, user, output, error) ==
    LET parts == SplitOnce(SubSeq(user_input, 7, Len(user_input)), <<"_", "_">>)
    IN  IF Len(parts) < 2 THEN Entered(TRUE, history, user, FALSE)
        ELSE LET rest == SplitOnce(parts[2], <<" ">>)
                 args == IF Len(rest) > 1 THEN rest[2] ELSE <<>>
             IN  IF m = "planning"
                 THEN Entered(FALSE,
                              Append(history, [role |-> "system",
                                               content |-> PlanToExecute(rest[1], parts[1], args)]),
                              user, FALSE)
                 ELSE Entered(FALSE,
                              Append(history, [role |-> "system",
                                               content |-> fetch_from_mcp(mcp_servers, parts[1], "prompt",
                                                                          output, error).result]),
                              user, TRUE)

\* agent_loop lines 82-110 for an input that holds no @server:uri reference: the test for a
\* leading slash comes first and calls handle_slash_command, a name agent.py never binds;
\* output and error are what the subprocess of a fetch_from_mcp would write
agent_input(user_input, m, history, user, proj, output, error) ==
    IF StartsWith(user_input, <<"/">>)
    THEN IF "handle_slash_command" \notin agent_globals THEN Entered(TRUE, history, user, FALSE)
         ELSE Entered(FALSE, handle_slash_command(user_input, history, user, proj).history,
                      handle_slash_command(user_input, history, user, proj).user, FALSE)
    ELSE IF StartsWith(user_input, <<"/", "m", "c", "p", "_", "_">>)
    THEN mcp_prompt(user_input, m, history, user, output, error)
    ELSE Entered(FALSE, Append(history, [role |-> "user", content |-> user_input]), user, FALSE)

----------------------------------------------------------------------------
(* The inputs and the initial states                                       *)

\* the longest audit log the model follows
MaxAudit == 1

\* the operator's lower-cased answers at a prompt
Answers == {"y", "ya", "n"}

File(content) == [content |-> content, size |-> Len(content)]

\* the files of the machine when the session starts
InitialFiles ==
    (<<"/", "p", "1", "/", "a", ".", "t", "x", "t">> :> File(<<"o", "l", "d">>))
    @@ (PathEtc :> File(<<"r", "o", "o", "t">>))
    @@ (<<"/", "e", "t", "c", "/", "a", "p", "p", ".", "c", "o", "n", "f">> :> File(<<"k", "e", "y", "=", "1">>))

\* the allow-lists and deny-lists a settings file may hold
ListChoices == {{}, {CmdLs}, Commands}

\* the remembered commands a settings file may hold
RememberedChoices ==
    { [d \in Dirs |-> <<>>],
      [d \in Dirs |-> IF d = DirA THEN <<CmdSudo>> ELSE <<CmdLs>>],
      [d \in Dirs |-> IF d = DirA THEN <<CmdLs>> ELSE <<>>] }

PermissionSets ==
    [allow : ListChoices, deny : ListChoices, allowed_cmds : RememberedChoices]

NoCall ==
    [tool |-> "none", target |-> <<>>, validated |-> [ok |-> TRUE, text |-> <<>>], output |-> "",
     prompted |-> FALSE,
     answer |-> "", spawned |-> <<>>, logged |-> 0, written |-> <<>>, checked |-> {},
     data |-> {}]

\* the keys the callers pass
Keys == {"test_user"}

\* RateLimiter.__init__: self.requests = {}
NoRequests == [k \in {} |-> <<>>]

NoCheck == [key |-> "", limit_type |-> "", result |-> TRUE]

\* sanitize, CommandFilter.is_allowed and FileGuardian.is_allowed not yet called
NoSanitize == [input |-> <<>>, output |-> [ok |-> TRUE, text |-> <<>>], passes |-> 0]
NoCommandCheck == [command |-> <<>>, called |-> FALSE, result |-> TRUE]
NoFileCheck == [path |-> <<>>, operation |-> "", called |-> FALSE, result |-> TRUE]

\* neither set_mode nor update_permissions has been called
NoSettingsCall == [op |-> "", mode |-> "", permissions |-> DefaultPermissions, restarted |-> FALSE]

\* fetch_from_mcp has not been called
NoMcpCall ==
    [server |-> <<>>, action_type |-> "", output |-> <<>>, error |-> <<>>, called |-> FALSE,
     spawned |-> FALSE, written |-> 0, closed |-> FALSE, waited |-> FALSE, result |-> <<>>]

\* subprocess.check_output has not been called
NoShellRun == [cmd |-> <<>>, stdout |-> <<>>, stderr |-> <<>>, status |-> 0, output |-> <<>>, ran |-> FALSE]

\* agent_loop has read no input
NoSession ==
    [alive |-> TRUE, option |-> <<>>, command |-> <<>>, input |-> <<>>, issued |-> "",
     fetched |-> FALSE, history |-> <<>>]

\* fetch_from_mcp has spawned no subprocess
NoPipes == [parent |-> "idle", child |-> "idle", program |-> <<>>, stdin |-> 0, stdout |-> 0, stderr |-> 0]

\* the process outside the calls a specification follows: the one SecurityManager of
\* grok/tools.py has been constructed, agent_loop is about to prompt
IdleProcess ==
    /\ shell = NoShellRun
    /\ loggers = 1
    /\ session = NoSession
    /\ pipes = NoPipes

\* the state when agent_loop enters its loop: mode = get_mode(), permissions = get_permissions()
Init ==
    /\ userFile \in [mode : {{}, {"auto-complete"}},
                     permissions : {{}} \cup {{p} : p \in PermissionSets}]
    /\ projFile \in [mode : {{}, {"planning"}}, permissions : {{}}]
    /\ cwd = DirA
    /\ mode = get_mode(userFile, projFile)
    /\ permissions = get_permissions(userFile, projFile)
    /\ fs = InitialFiles
    /\ ya_answered = {}
    /\ audit = <<>>
    /\ last = NoCall
    /\ requests = NoRequests
    /\ now = 0
    /\ rl_last = NoCheck
    /\ granted = [k \in Keys |-> <<>>]
    /\ san = NoSanitize
    /\ cmd_check = NoCommandCheck
    /\ file_check = NoFileCheck
    /\ settings_call = NoSettingsCall
    /\ mcp = NoMcpCall
    /\ IdleProcess

----------------------------------------------------------------------------
(* The tool calls of the agent loop                                        *)

\* what a handle_tool_call that returned r leaves behind; last keeps what validate_input
\* returns for the payload of the call, and the validators the call reached
Apply(tool, target, content, answer, r) ==
    /\ Len(audit) + Len(r.events) <= MaxAudit
    /\ permissions' = r.perms
    /\ userFile' = IF r.saved THEN update_permissions(userFile, projFile, r.perms) ELSE userFile
    /\ audit' = audit \o r.events
    /\ fs' = IF r.written = <<>> THEN fs
             ELSE [fs EXCEPT ![r.written[1].path] = File(r.written[1].content)]
    /\ last' = [tool |-> tool, target |-> target, validated |-> validate_input(content),
                output |-> r.output,
                prompted |-> r.prompted, answer |-> IF r.prompted THEN answer ELSE "",
                spawned |-> r.spawned, logged |-> Len(r.events), written |-> r.written,
                checked |-> validators_run(tool, mode, cwd, fs, target), data |-> {}]
    /\ UNCHANGED <<projFile, cwd, mode, requests, now, rl_last, granted, CheckVars, settings_call, mcp, ProcessVars>>

\* agent_loop hands a run_bash tool call to handle_tool_call
RunBash(cmd, choice, exit_ok) ==
    /\ last.output # Raised
    /\ LET r == run_bash(mode, permissions, cwd, cmd, choice, exit_ok)
       IN  /\ Apply("run_bash", cmd, <<>>, choice, r)
           /\ ya_answered' = IF r.prompted /\ choice = "ya" THEN ya_answered \cup {<<cwd, cmd>>}
                             ELSE ya_answered

\* agent_loop hands an edit_file tool call to handle_tool_call
EditFile(path, content, accept, code_ok) ==
    /\ last.output # Raised
    /\ LET r == edit_file(mode, permissions, cwd, fs, path, content, accept, code_ok)
       IN  /\ Apply("edit_file", path, content, accept, r)
           /\ UNCHANGED ya_answered

Next ==
    \/ \E cmd \in Commands, choice \in Answers, exit_ok \in BOOLEAN : RunBash(cmd, choice, exit_ok)
    \/ \E path \in Paths, content \in Contents, accept \in Answers, code_ok \in BOOLEAN :
           EditFile(path, content, accept, code_ok)

Spec == Init /\ [][Next]_vars

----------------------------------------------------------------------------
(* The rate limiter under its callers                                      *)

\* the last second the model follows
MaxTime == 600

\* the clock advances by one second less than the commands window, or by the commands window
Steps == {limits["commands"].window - 1, limits["commands"].window}

\* a session in which nothing but the rate limiter is used
InitRL ==
    /\ userFile = EmptySettings
    /\ projFile = EmptySettings
    /\ cwd = DirA
    /\ mode = get_mode(userFile, projFile)
    /\ permissions = get_permissions(userFile, projFile)
    /\ fs = InitialFiles
    /\ ya_answered = {}
    /\ audit = <<>>
    /\ last = NoCall
    /\ requests = NoRequests
    /\ now = 0
    /\ rl_last = NoCheck
    /\ granted = [k \in Keys |-> <<>>]
    /\ san = NoSanitize
    /\ cmd_check = NoCommandCheck
    /\ file_check = NoFileCheck
    /\ settings_call = NoSettingsCall
    /\ mcp = NoMcpCall
    /\ IdleProcess

GateVars == <<userFile, projFile, cwd, mode, permissions, fs, ya_answered, audit, last, CheckVars,
             settings_call, mcp, ProcessVars>>

\* a caller checks key under limit_type at the current time
CheckRateLimit(key, limit_type) ==
    LET r == check_rate_limit(requests, key, limit_type, now)
    IN  /\ requests' = r.requests
        /\ rl_last' = [key |-> key, limit_type |-> limit_type, result |-> r.result]
        /\ granted' = IF r.result THEN [granted EXCEPT ![key] = Append(@, now)] ELSE granted
        /\ UNCHANGED <<now, GateVars>>

\* time passes, up to the second `horizon`
Tick(d, horizon) ==
    /\ now + d <= horizon
    /\ now' = now + d
    /\ UNCHANGED <<requests, rl_last, granted, GateVars>>

\* every key is used with the commands class only
NextRL ==
    \/ \E key \in Keys : CheckRateLimit(key, "commands")
    \/ \E d \in Steps : Tick(d, MaxTime)

SpecRL == InitRL /\ [][NextRL]_vars

\* the last second the model follows when the classes are mixed
MaxTimeMixed == 300

\* the callers use both classes with the same key
NextRLMixed ==
    \/ \E key \in Keys, limit_type \in LimitTypes : CheckRateLimit(key, limit_type)
    \/ \E d \in Steps : Tick(d, MaxTimeMixed)

SpecRLMixed == InitRL /\ [][NextRLMixed]_vars

----------------------------------------------------------------------------
(* InputValidator.sanitize called on its own                               *)

\* the pieces the texts of the model are put together from
Fragments ==
    {<<"x">>,
     <<" ">>,
     <<"\n">>,
     <<NUL>>,
     <<"j", "a", "v", "a">>,
     <<"s", "c", "r", "i", "p", "t", ":">>,
     <<"J", "a", "v", "a", "S", "c", "r", "i", "p", "t", ":">>,
     <<"d", "a", "t", "a", ":", "t", "e", "x", "t", "/", "h", "t", "m", "l">>,
     <<"<", "s", "c", "r", "i", "p", "t", ">">>,
     <<"<", "/", "s", "c", "r", "i", "p", "t", ">">>}

\* a text is at most this many pieces long
MaxFragments == 3

\* the texts of at most n pieces
RECURSIVE TextsOf(_)
TextsOf(n) ==
    IF n = 0 THEN {<<>>}
    ELSE LET shorter == TextsOf(n - 1)
         IN  shorter \cup {t \o f : t \in shorter, f \in Fragments}

\* texts at the size limit: as long as the limit, one longer, and one longer than the limit
\* that the removals would bring under it
TextAtLimit == Letters(max_input_length)
TextOversizedRemovable ==
    Letters(max_input_length - 5) \o <<"j", "a", "v", "a", "s", "c", "r", "i", "p", "t", ":">>

SanInputs == TextsOf(MaxFragments) \cup {TextAtLimit, TextOversized, TextOversizedRemovable}

\* no variable but san changes
OnlySan ==
    UNCHANGED <<userFile, projFile, cwd, mode, permissions, fs, ya_answered, audit, last,
                requests, now, rl_last, granted, cmd_check, file_check,
                settings_call, mcp, ProcessVars>>

\* a caller holds a text and has not yet called sanitize
InitSan ==
    /\ userFile = EmptySettings
    /\ projFile = EmptySettings
    /\ cwd = DirA
    /\ mode = get_mode(userFile, projFile)
    /\ permissions = get_permissions(userFile, projFile)
    /\ fs = InitialFiles
    /\ ya_answered = {}
    /\ audit = <<>>
    /\ last = NoCall
    /\ requests = NoRequests
    /\ now = 0
    /\ rl_last = NoCheck
    /\ granted = [k \in Keys |-> <<>>]
    /\ san \in [input : SanInputs, output : {NoSanitize.output}, passes : {0}]
    /\ cmd_check = NoCommandCheck
    /\ file_check = NoFileCheck
    /\ settings_call = NoSettingsCall
    /\ mcp = NoMcpCall
    /\ IdleProcess

\* the caller calls sanitize on its text
Sanitize ==
    /\ san.passes = 0
    /\ san' = [input |-> san.input, output |-> sanitize(san.input), passes |-> 1]
    /\ OnlySan

\* the caller calls sanitize on the text sanitize returned
SanitizeAgain ==
    /\ san.passes = 1
    /\ san.output.ok
    /\ san' = [input |-> san.output.text, output |-> sanitize(san.output.text), passes |-> 2]
    /\ OnlySan

NextSan == Sanitize \/ SanitizeAgain

SpecSan == InitSan /\ [][NextSan]_vars

----------------------------------------------------------------------------
(* CommandFilter.is_allowed called on its own                              *)

\* the pieces the commands of the model are put together from
CommandFragments ==
    {<<"l", "s">>,
     <<"x">>,
     <<" ">>,
     <<"\t">>,
     <<"s", "u", "d", "o">>,
     <<"S", "u", "D", "o">>,
     <<"r", "m">>,
     <<"p", "y", "t", "h", "o", "n", " ", "-", "c">>,
     <<";">>,
     <<"&", "&">>,
     <<"|">>,
     <<"s", "h">>,
     <<Backquote>>,
     <<"$", "(">>,
     <<")">>,
     <<">">>,
     <<"/", "d", "e", "v", "/">>}

\* a command is at most this many pieces long
MaxCommandFragments == 3

\* the commands of at most n pieces
RECURSIVE CommandsOf(_)
CommandsOf(n) ==
    IF n = 0 THEN {<<>>}
    ELSE LET shorter == CommandsOf(n - 1)
         IN  shorter \cup {c \o f : c \in shorter, f \in CommandFragments}

CmdInputs == CommandsOf(MaxCommandFragments) \cup Commands

\* no variable but cmd_check changes
OnlyCmdCheck ==
    UNCHANGED <<userFile, projFile, cwd, mode, permissions, fs, ya_answered, audit, last,
                requests, now, rl_last, granted, san, file_check,
                settings_call, mcp, ProcessVars>>

\* a caller holds a command and has not yet called is_allowed
InitCmd ==
    /\ userFile = EmptySettings
    /\ projFile = EmptySettings
    /\ cwd = DirA
    /\ mode = get_mode(userFile, projFile)
    /\ permissions = get_permissions(userFile, projFile)
    /\ fs = InitialFiles
    /\ ya_answered = {}
    /\ audit = <<>>
    /\ last = NoCall
    /\ requests = NoRequests
    /\ now = 0
    /\ rl_last = NoCheck
    /\ granted = [k \in Keys |-> <<>>]
    /\ san = NoSanitize
    /\ cmd_check \in [command : CmdInputs, called : {FALSE}, result : {TRUE}]
    /\ file_check = NoFileCheck
    /\ settings_call = NoSettingsCall
    /\ mcp = NoMcpCall
    /\ IdleProcess

\* the caller calls CommandFilter.is_allowed on its command
IsAllowed ==
    /\ ~cmd_check.called
    /\ cmd_check' = [command |-> cmd_check.command, called |-> TRUE,
                     result |-> is_allowed(cmd_check.command)]
    /\ OnlyCmdCheck

NextCmd == IsAllowed

SpecCmd == InitCmd /\ [][NextCmd]_vars

----------------------------------------------------------------------------
(* FileGuardian.is_allowed called on its own                               *)

\* the names the paths of the model are put together from
PathParts ==
    {<<".", ".">>,
     <<"e", "t", "c">>,
     <<"e", "t", "c", "e", "t", "e", "r", "a">>,
     <<"p", "1">>,
     <<"l", "o", "c", "k", "e", "d">>,
     <<"a", ".", "t", "x", "t">>,
     <<"a", ".", "e", "x", "e">>,
     <<"A", ".", "T", "X", "T">>,
     <<"l", ".", "t", "x", "t">>,
     <<"b", "i", "g", ".", "l", "o", "g">>,
     <<"a", NUL, ".", "t", "x", "t">>,
     <<"r", "o", "o", "t", "k", "i", "t", ".", "t", "x", "t">>}

\* a path is at most this many names long
MaxPathParts == 3

\* the relative paths of one to n names
RECURSIVE RelativePaths(_)
RelativePaths(n) ==
    IF n = 1 THEN PathParts
    ELSE LET shorter == RelativePaths(n - 1)
         IN  shorter \cup {q \o <<"/">> \o part : q \in shorter, part \in PathParts}

\* the paths handed to is_allowed: relative to the working directory, and absolute
PathInputs ==
    RelativePaths(MaxPathParts) \cup {<<"/">> \o q : q \in RelativePaths(MaxPathParts)}

Operations == {"read", "write", "list", "search"}

\* the files of the machine, with one file larger than max_file_size
FilesWithBigFile ==
    InitialFiles @@
    (<<"/", "p", "1", "/", "b", "i", "g", ".", "l", "o", "g">> :>
         [content |-> <<>>, size |-> max_file_size + 1])

\* no variable but file_check changes
OnlyFileCheck ==
    UNCHANGED <<userFile, projFile, cwd, mode, permissions, fs, ya_answered, audit, last,
                requests, now, rl_last, granted, san, cmd_check,
                settings_call, mcp, ProcessVars>>

\* a caller holds a path and an operation and has not yet called is_allowed
InitFile ==
    /\ userFile = EmptySettings
    /\ projFile = EmptySettings
    /\ cwd = DirA
    /\ mode = get_mode(userFile, projFile)
    /\ permissions = get_permissions(userFile, projFile)
    /\ fs = FilesWithBigFile
    /\ ya_answered = {}
    /\ audit = <<>>
    /\ last = NoCall
    /\ requests = NoRequests
    /\ now = 0
    /\ rl_last = NoCheck
    /\ granted = [k \in Keys |-> <<>>]
    /\ san = NoSanitize
    /\ cmd_check = NoCommandCheck
    /\ file_check \in [path : PathInputs, operation : Operations, called : {FALSE}, result : {TRUE}]
    /\ settings_call = NoSettingsCall
    /\ mcp = NoMcpCall
    /\ IdleProcess

\* the caller calls FileGuardian.is_allowed on its path and operation
FileIsAllowed ==
    /\ ~file_check.called
    /\ file_check' = [path |-> file_check.path, operation |-> file_check.operation,
                      called |-> TRUE,
                      result |-> file_is_allowed(file_check.path, file_check.operation, cwd, fs)]
    /\ OnlyFileCheck

NextFile == FileIsAllowed

SpecFile == InitFile /\ [][NextFile]_vars

----------------------------------------------------------------------------
(* Sessions started one after the other in the project directories         *)

\* the commands proposed in these sessions
SessionCommands == {CmdLs, CmdGit}

\* the first session starts in DirA on a machine whose settings files hold no permissions
\* and whose project directories hold no settings file
InitSessions ==
    /\ userFile \in [mode : {{}, {"auto-complete"}}, permissions : {{}}]
    /\ projFile = EmptySettings
    /\ cwd = DirA
    /\ mode = get_mode(userFile, projFile)
    /\ permissions = get_permissions(userFile, projFile)
    /\ fs = InitialFiles
    /\ ya_answered = {}
    /\ audit = <<>>
    /\ last = NoCall
    /\ requests = NoRequests
    /\ now = 0
    /\ rl_last = NoCheck
    /\ granted = [k \in Keys |-> <<>>]
    /\ san = NoSanitize
    /\ cmd_check = NoCommandCheck
    /\ file_check = NoFileCheck
    /\ settings_call = NoSettingsCall
    /\ mcp = NoMcpCall
    /\ IdleProcess

\* the process ends and the program is started in directory dir: agent_loop reads the mode
\* and the permissions from the settings files again
Restart(dir) ==
    /\ cwd' = dir
    /\ mode' = get_mode(userFile, projFile)
    /\ permissions' = get_permissions(userFile, projFile)
    /\ last' = NoCall
    /\ settings_call' = [settings_call EXCEPT !.restarted = (settings_call.op # "")]
    /\ UNCHANGED <<userFile, projFile, fs, ya_answered, audit, requests, now, rl_last, granted,
                   CheckVars, mcp, ProcessVars>>

NextSessions ==
    \/ \E cmd \in SessionCommands, choice \in Answers, exit_ok \in BOOLEAN :
           RunBash(cmd, choice, exit_ok)
    \/ \E dir \in Dirs : Restart(dir)

SpecSessions == InitSessions /\ [][NextSessions]_vars

----------------------------------------------------------------------------
(* The settings calls of grok/config.py on every content of the two files  *)

\* the modes the /mode command accepts
SettingsModes == {"default", "auto-complete", "planning"}

\* the permission sets a settings file may hold and update_permissions may be given
SettingsPermissions ==
    { DefaultPermissions,
      [DefaultPermissions EXCEPT !.allow = {CmdLs}],
      [DefaultPermissions EXCEPT !.allowed_cmds[DirA] = <<CmdGit>>] }

\* what a settings file may hold: each key absent or holding one value
SettingsFiles ==
    [mode : {{}} \cup {{m} : m \in SettingsModes},
     permissions : {{}} \cup {{p} : p \in SettingsPermissions}]

\* the program starts in DirA with any content in the two settings files
InitSettings ==
    /\ userFile \in SettingsFiles
    /\ projFile \in SettingsFiles
    /\ cwd = DirA
    /\ mode = get_mode(userFile, projFile)
    /\ permissions = get_permissions(userFile, projFile)
    /\ fs = InitialFiles
    /\ ya_answered = {}
    /\ audit = <<>>
    /\ last = NoCall
    /\ requests = NoRequests
    /\ now = 0
    /\ rl_last = NoCheck
    /\ granted = [k \in Keys |-> <<>>]
    /\ san = NoSanitize
    /\ cmd_check = NoCommandCheck
    /\ file_check = NoFileCheck
    /\ settings_call = NoSettingsCall
    /\ mcp = NoMcpCall
    /\ IdleProcess

\* what a settings call leaves alone: it writes the user-level file only
OnlyUserFile ==
    UNCHANGED <<projFile, cwd, mode, permissions, fs, ya_answered, audit, last, requests, now,
                rl_last, granted, CheckVars, mcp, ProcessVars>>

\* a caller (handle_tool_call after 'ya', the /permissions command) calls update_permissions(p)
UpdatePermissions(p) ==
    /\ userFile' = update_permissions(userFile, projFile, p)
    /\ settings_call' = [op |-> "update_permissions", mode |-> "", permissions |-> p,
                         restarted |-> FALSE]
    /\ OnlyUserFile

\* the /mode command calls set_mode(m)
SetMode(m) ==
    /\ userFile' = set_mode(userFile, projFile, m)
    /\ settings_call' = [op |-> "set_mode", mode |-> m, permissions |-> DefaultPermissions,
                         restarted |-> FALSE]
    /\ OnlyUserFile

NextSettings ==
    \/ \E p \in SettingsPermissions : UpdatePermissions(p)
    \/ \E m \in SettingsModes : SetMode(m)
    \/ Restart(cwd)

SpecSettings == InitSettings /\ [][NextSettings]_vars

----------------------------------------------------------------------------
(* Edits proposed in sessions whose deny-list names files                  *)

\* the deny-lists of these sessions: empty, a.txt as the tool call names it, a.txt by its
\* absolute path, and both
DeniedPaths == {{}, {PathA}, {DirA \o <<"/">> \o PathA}, {PathA, DirA \o <<"/">> \o PathA}}

\* a session in DirA, in any mode, whose user-level deny-list is one of DeniedPaths
InitEdits ==
    /\ userFile \in [mode : {{}} \cup {{m} : m \in SettingsModes},
                     permissions : {{[DefaultPermissions EXCEPT !.deny = d]} : d \in DeniedPaths}]
    /\ projFile = EmptySettings
    /\ cwd = DirA
    /\ mode = get_mode(userFile, projFile)
    /\ permissions = get_permissions(userFile, projFile)
    /\ fs = InitialFiles
    /\ ya_answered = {}
    /\ audit = <<>>
    /\ last = NoCall
    /\ requests = NoRequests
    /\ now = 0
    /\ rl_last = NoCheck
    /\ granted = [k \in Keys |-> <<>>]
    /\ san = NoSanitize
    /\ cmd_check = NoCommandCheck
    /\ file_check = NoFileCheck
    /\ settings_call = NoSettingsCall
    /\ mcp = NoMcpCall
    /\ IdleProcess

NextEdits ==
    \E path \in Paths, content \in Contents, accept \in Answers, code_ok \in BOOLEAN :
        EditFile(path, content, accept, code_ok)

SpecEdits == InitEdits /\ [][NextEdits]_vars

----------------------------------------------------------------------------
(* Inspection tools called in sessions of every mode                       *)

\* a.txt of the project holds two lines
InspectedFiles ==
    [InitialFiles EXCEPT ![DirA \o <<"/">> \o PathA] = File(<<"o", "l", "d", LF, "k", "e", "y", LF>>)]

\* the arguments of the inspection tools: paths for read_file and list_files, lower-case
\* patterns for find_files and grep_files
InspectionArgs(tool) ==
    IF tool = "read_file" THEN {PathA, PathEtc, PathNew}
    ELSE IF tool = "list_files" THEN {<<".">>, <<"/", "e", "t", "c">>, PathA}
    ELSE IF tool = "find_files" THEN {<<"t", "x", "t">>, <<"z">>}
    ELSE {<<"k", "e">>, <<"o", "l", "d">>, <<"z">>}

\* the tool calls proposed: every tool with each of its arguments
InspectionCalls == UNION {{tool} \X InspectionArgs(tool) : tool \in InspectionTools}

\* a session in DirA, in any mode
InitInspect ==
    /\ userFile \in [mode : {{}} \cup {{m} : m \in SettingsModes}, permissions : {{}}]
    /\ projFile = EmptySettings
    /\ cwd = DirA
    /\ mode = get_mode(userFile, projFile)
    /\ permissions = get_permissions(userFile, projFile)
    /\ fs = InspectedFiles
    /\ ya_answered = {}
    /\ audit = <<>>
    /\ last = NoCall
    /\ requests = NoRequests
    /\ now = 0
    /\ rl_last = NoCheck
    /\ granted = [k \in Keys |-> <<>>]
    /\ san = NoSanitize
    /\ cmd_check = NoCommandCheck
    /\ file_check = NoFileCheck
    /\ settings_call = NoSettingsCall
    /\ mcp = NoMcpCall
    /\ IdleProcess

\* what a handle_tool_call of an inspection tool that returned r leaves behind
ApplyInspection(tool, arg, r) ==
    /\ Len(audit) + Len(r.events) <= MaxAudit
    /\ audit' = audit \o r.events
    /\ last' = [tool |-> tool, target |-> arg, validated |-> validate_input(<<>>),
                output |-> r.output,
                prompted |-> FALSE, answer |-> "", spawned |-> <<>>,
                logged |-> Len(r.events), written |-> <<>>,
                checked |-> IF mode = "planning" THEN {} ELSE {"validate_file_operation"},
                data |-> r.data]
    /\ UNCHANGED <<userFile, projFile, cwd, mode, permissions, fs, ya_answered, requests, now,
                   rl_last, granted, CheckVars, settings_call, mcp, ProcessVars>>

\* agent_loop hands a tool call of an inspection tool to handle_tool_call
Inspect(tool, arg) ==
    /\ last.output # Raised
    /\ ApplyInspection(tool, arg, inspect(tool, mode, cwd, fs, arg))

NextInspect ==
    \/ \E call \in InspectionCalls : Inspect(call[1], call[2])
    \/ \E path \in Paths, content \in Contents, accept \in Answers, code_ok \in BOOLEAN :
           EditFile(path, content, accept, code_ok)

SpecInspect == InitInspect /\ [][NextInspect]_vars

----------------------------------------------------------------------------
(* fetch_from_mcp called on every answer of the subprocess                 *)

\* the pieces the outputs of the subprocess are put together from
OutputFragments ==
    {<<"{">>,
     <<"}">>,
     <<"\"", "e", "r", "r", "o", "r", "\"", ":", "\"", "n", "o", "t", " ", "f", "o", "u", "n", "d", "\"">>,
     <<"\"", "r", "e", "s", "u", "l", "t", "\"", ":", "\"", "o", "k", "\"">>,
     <<",">>,
     <<"n", "o", "t", " ", "j", "s", "o", "n">>,
     <<"\"", "e", "r", "r", "o", "r", "\"">>,
     <<"[">>,
     <<"]">>,
     <<" ">>}

\* an output is at most this many pieces long
MaxOutputFragments == 3

\* the outputs of at most n pieces
RECURSIVE OutputsOf(_)
OutputsOf(n) ==
    IF n = 0 THEN {<<>>}
    ELSE LET shorter == OutputsOf(n - 1)
         IN  shorter \cup {t \o f : t \in shorter, f \in OutputFragments}

McpOutputs == OutputsOf(MaxOutputFragments)

\* what the subprocess writes to its stderr: nothing, or a line
McpErrors == {<<>>, <<"w", "a", "r", "n", ":", " ", "c", "a", "c", "h", "e", " ", "m", "i", "s", "s">>}

\* the action types of the callers (agent_loop passes 'resource' and 'prompt') and another one
ActionTypes == {"resource", "prompt", "tool"}

\* the calls of the model: a request to the stdio server with every answer of the subprocess,
\* and the calls that return before a request is written
McpCalls ==
    [server : {<<"d", "o", "c", "s">>}, action_type : {"resource", "prompt"}, output : McpOutputs,
     error : McpErrors]
    \cup [server : {<<"d", "o", "c", "s">>, <<"w", "e", "b">>, <<"n", "o", "p", "e">>}, action_type : ActionTypes,
          output : {<<"{", "\"", "r", "e", "s", "u", "l", "t", "\"", ":", "\"", "o", "k", "\"", "}">>}, error : {<<>>}]

\* a caller is about to call fetch_from_mcp
InitMcp ==
    /\ userFile = EmptySettings
    /\ projFile = EmptySettings
    /\ cwd = DirA
    /\ mode = get_mode(userFile, projFile)
    /\ permissions = get_permissions(userFile, projFile)
    /\ fs = InitialFiles
    /\ ya_answered = {}
    /\ audit = <<>>
    /\ last = NoCall
    /\ requests = NoRequests
    /\ now = 0
    /\ rl_last = NoCheck
    /\ granted = [k \in Keys |-> <<>>]
    /\ san = NoSanitize
    /\ cmd_check = NoCommandCheck
    /\ file_check = NoFileCheck
    /\ settings_call = NoSettingsCall
    /\ \E c \in McpCalls :
           mcp = [NoMcpCall EXCEPT !.server = c.server, !.action_type = c.action_type,
                                   !.output = c.output, !.error = c.error]
    /\ IdleProcess

\* what a fetch_from_mcp that did r leaves behind
ApplyFetch(r) ==
    /\ mcp' = [mcp EXCEPT !.called = TRUE, !.spawned = r.spawned, !.written = r.written,
                          !.closed = r.closed, !.waited = r.waited, !.result = r.result]
    /\ UNCHANGED <<userFile, projFile, cwd, mode, permissions, fs, ya_answered, audit, last,
                   requests, now, rl_last, granted, CheckVars, settings_call, ProcessVars>>

\* agent_loop calls fetch_from_mcp and the subprocess, if one is spawned, answers
FetchFromMcp ==
    /\ ~mcp.called
    /\ ApplyFetch(fetch_from_mcp(mcp_servers, mcp.server, mcp.action_type, mcp.output, mcp.error))

NextMcp == FetchFromMcp

SpecMcp == InitMcp /\ [][NextMcp]_vars

----------------------------------------------------------------------------
(* Sessions of the operator: starts of the program, inputs at the prompt,  *)
(* responses with tool calls of every shape                                *)

\* the function names of the tool calls: two tools of TOOLS and a name that is none of them
ToolNames == {"edit_file", "run_bash", "delete_file"}

\* the tool calls of the responses, with arguments that parse and hold the keys of the
\* branch (well_formed) or not
ToolCalls ==
    [func_name : {"edit_file"}, well_formed : BOOLEAN, target : {PathA, PathNew},
     content : {TextSpaces}]
    \cup [func_name : {"run_bash"}, well_formed : BOOLEAN, target : {CmdLs, CmdSudo},
          content : {<<>>}]
    \cup [func_name : {"delete_file"}, well_formed : BOOLEAN, target : {PathA}, content : {<<>>}]

\* what the operator types at the prompt
McpPromptInput == <<"/", "m", "c", "p", "_", "_", "d", "o", "c", "s", "_", "_", "g", "r", "e", "e", "t", " ", "h", "i">>
ModePlanningInput == <<"/", "m", "o", "d", "e", " ", "p", "l", "a", "n", "n", "i", "n", "g">>
OperatorInputs ==
    { <<"f", "i", "x", " ", "t", "h", "e", " ", "b", "u", "g">>,
      ModePlanningInput,
      <<"/", "m", "o", "d", "e", " ", "a", "u", "t", "o", "-", "c", "o", "m", "p", "l", "e", "t", "e">>,
      <<"/", "m", "o", "d", "e", " ", "b", "o", "g", "u", "s">>,
      McpPromptInput }

\* the arguments of --mode: none, a mode, something else
ModeOptions == {<<>>, ModeText["auto-complete"], <<"b", "o", "g", "u", "s">>}

\* the entries of the history the model follows
MaxHistory == 3

\* the program has been started without a --mode option in DirA and agent_loop is at its
\* prompt; the settings files hold a defined mode or none
InitLoop ==
    /\ userFile \in [mode : {{}, {"auto-complete"}}, permissions : {{}}]
    /\ projFile \in [mode : {{}, {"planning"}}, permissions : {{}}]
    /\ cwd = DirA
    /\ mode = get_mode(userFile, projFile)
    /\ permissions = get_permissions(userFile, projFile)
    /\ fs = InitialFiles
    /\ ya_answered = {}
    /\ audit = <<>>
    /\ last = NoCall
    /\ requests = NoRequests
    /\ now = 0
    /\ rl_last = NoCheck
    /\ granted = [k \in Keys |-> <<>>]
    /\ san = NoSanitize
    /\ cmd_check = NoCommandCheck
    /\ file_check = NoFileCheck
    /\ settings_call = NoSettingsCall
    /\ mcp = NoMcpCall
    /\ IdleProcess

\* what the steps of the operator leave alone
OnlySession ==
    UNCHANGED <<projFile, cwd, fs, ya_answered, audit, requests, now, rl_last, granted, CheckVars,
                settings_call, mcp, shell, loggers, pipes>>

\* agent_loop is at session.prompt: the history is empty or ends with the assistant's entry
AtPrompt ==
    /\ session.alive
    /\ IF session.history = <<>> THEN TRUE
       ELSE session.history[Len(session.history)].role = "assistant"

\* what a round of agent_loop at the prompt that did r leaves behind; an exception ends
\* agent_loop and the process
ApplyInput(user_input, r) ==
    /\ userFile' = r.user
    /\ session' = [session EXCEPT
                       !.alive = ~r.raised,
                       !.input = user_input,
                       !.issued = IF StartsWith(user_input, <<"/", "m", "o", "d", "e">>)
                                     /\ ModeName(JoinWith(Tail(Split(user_input)), <<" ">>)) # UnknownMode
                                  THEN ModeName(JoinWith(Tail(Split(user_input)), <<" ">>))
                                  ELSE @,
                       !.fetched = r.fetched,
                       !.history = r.history]
    /\ UNCHANGED <<mode, permissions, last>>
    /\ OnlySession

\* the operator types user_input at the prompt of agent_loop
OperatorInput(user_input, output, error) ==
    /\ AtPrompt
    /\ Len(session.history) < MaxHistory
    /\ ApplyInput(user_input,
                  agent_input(user_input, mode, session.history, userFile, projFile, output, error))

\* what a handle_tool_call that did r leaves behind, agent_loop lines 118-123: the call is
\* inside no try block, so an exception it raises ends agent_loop; otherwise its result and
\* the assistant's entry are appended to the history
ApplyToolCall(tc, answer, r) ==
    /\ Len(audit) + Len(r.events) <= MaxAudit
    /\ permissions' = r.perms
    /\ userFile' = IF r.saved THEN update_permissions(userFile, projFile, r.perms) ELSE userFile
    /\ ya_answered' = IF r.saved THEN ya_answered \cup {<<cwd, tc.target>>} ELSE ya_answered
    /\ audit' = audit \o r.events
    /\ fs' = IF r.written = <<>> THEN fs
             ELSE [fs EXCEPT ![r.written[1].path] = File(r.written[1].content)]
    /\ last' = [tool |-> tc.func_name, target |-> tc.target,
                validated |-> validate_input(tc.content), output |-> r.output,
                prompted |-> r.prompted, answer |-> IF r.prompted THEN answer ELSE "",
                spawned |-> r.spawned, logged |-> Len(r.events), written |-> r.written,
                checked |-> IF tc.well_formed /\ tc.func_name \in {"edit_file", "run_bash"}
                            THEN validators_run(tc.func_name, mode, cwd, fs, tc.target)
                            ELSE {},
                data |-> {}]
    /\ session' = [session EXCEPT
                       !.alive = (r.output # Raised),
                       !.history = IF r.output = Raised THEN @
                                   ELSE @ \o <<[role |-> "tool", content |-> r.output],
                                               [role |-> "assistant", content |-> <<>>]>>]
    /\ UNCHANGED <<projFile, cwd, mode, requests, now, rl_last, granted, CheckVars,
                   settings_call, mcp, shell, loggers, pipes>>

\* call_api answers the operator's input with the tool call tc, which agent_loop hands to
\* handle_tool_call; line 112 offers the tools outside planning mode only
RespondWithToolCall(tc, answer, ok) ==
    /\ session.alive
    /\ ~AtPrompt
    /\ mode # "planning"
    /\ Len(session.history) + 2 <= MaxHistory
    /\ ApplyToolCall(tc, answer,
                     handle_tool_call(tc.func_name, tc.well_formed, mode, permissions, cwd, fs,
                                      tc.target, tc.content, answer, ok))

\* call_api answers with a message that holds no tool call
Respond ==
    /\ session.alive
    /\ ~AtPrompt
    /\ Len(session.history) + 1 <= MaxHistory
    /\ session' = [session EXCEPT
                       !.history = Append(@, [role |-> "assistant", content |-> <<>>])]
    /\ UNCHANGED <<userFile, mode, permissions, last>>
    /\ OnlySession

\* what a start of the program that did r leaves behind: when cli raised the process has
\* ended again, otherwise agent_loop has read the mode and the permissions
ApplyStart(option, r) ==
    /\ userFile' = r.user
    /\ mode' = IF r.raised THEN mode ELSE get_mode(r.user, projFile)
    /\ permissions' = IF r.raised THEN permissions ELSE get_permissions(r.user, projFile)
    /\ last' = NoCall
    /\ session' = [NoSession EXCEPT !.alive = ~r.raised, !.option = option,
                                    !.command = session.command]
    /\ OnlySession

\* the process has ended and the operator starts the program in the same directory
Cli(option) ==
    /\ ~session.alive
    /\ ApplyStart(option, cli(option, userFile, projFile))

\* a caller that binds handle_slash_command (grok/main.py imports it) calls it with an empty
\* history while no agent_loop is running
SlashCommand(command) ==
    /\ ~session.alive
    /\ StartsWith(command, <<"/">>)
    /\ userFile' = handle_slash_command(command, <<>>, userFile, projFile).user
    /\ session' = [session EXCEPT !.command = command]
    /\ UNCHANGED <<mode, permissions, last>>
    /\ OnlySession

NextLoop ==
    \/ \E user_input \in OperatorInputs : OperatorInput(user_input, <<>>, <<>>)
    \/ \E tc \in ToolCalls, answer \in Answers \cup {Interrupt}, ok \in BOOLEAN :
           RespondWithToolCall(tc, answer, ok)
    \/ Respond
    \/ \E option \in ModeOptions : Cli(option)
    \/ \E command \in OperatorInputs : SlashCommand(command)

SpecLoop == InitLoop /\ [][NextLoop]_vars

----------------------------------------------------------------------------
(* Commands that run, and what the gate returns for them                   *)

\* what a command may write to its standard output, among them the text of a failure
CommandStdouts ==
    {<<>>, <<"a", ".", "t", "x", "t", "\n">>, NonZeroExit(CmdLs, 1)}

\* what a command may write to its standard error
CommandStderrs ==
    {<<>>, <<"l", "s", ":", " ", "n", "o", " ", "s", "u", "c", "h", " ", "f", "i", "l", "e", "\n">>}

\* the exit statuses the model follows
MaxStatus == 2

\* the runs of a command: what it writes and how it exits
ShellRuns == [stdout : CommandStdouts, stderr : CommandStderrs, status : 0..MaxStatus]

\* a session in DirA, in default or planning mode, with ls allowed beforehand or not
InitShell ==
    /\ userFile \in [mode : {{}, {"planning"}},
                     permissions : {{DefaultPermissions},
                                    {[DefaultPermissions EXCEPT !.allow = {CmdLs}]}}]
    /\ projFile = EmptySettings
    /\ cwd = DirA
    /\ mode = get_mode(userFile, projFile)
    /\ permissions = get_permissions(userFile, projFile)
    /\ fs = InitialFiles
    /\ ya_answered = {}
    /\ audit = <<>>
    /\ last = NoCall
    /\ requests = NoRequests
    /\ now = 0
    /\ rl_last = NoCheck
    /\ granted = [k \in Keys |-> <<>>]
    /\ san = NoSanitize
    /\ cmd_check = NoCommandCheck
    /\ file_check = NoFileCheck
    /\ settings_call = NoSettingsCall
    /\ mcp = NoMcpCall
    /\ IdleProcess

\* what a run_bash call that did r leaves behind when the command, should it run, runs as run
ApplyRun(cmd, choice, run, r) ==
    /\ Len(audit) + Len(r.events) <= MaxAudit
    /\ permissions' = r.perms
    /\ userFile' = IF r.saved THEN update_permissions(userFile, projFile, r.perms) ELSE userFile
    /\ ya_answered' = IF r.saved THEN ya_answered \cup {<<cwd, cmd>>} ELSE ya_answered
    /\ audit' = audit \o r.events
    /\ last' = [tool |-> "run_bash", target |-> cmd, validated |-> validate_input(<<>>),
                output |-> r.output,
                prompted |-> r.prompted, answer |-> IF r.prompted THEN choice ELSE "",
                spawned |-> r.spawned, logged |-> Len(r.events), written |-> r.written,
                checked |-> validators_run("run_bash", mode, cwd, fs, cmd), data |-> {}]
    /\ shell' = IF r.spawned = <<>> THEN NoShellRun
                ELSE [cmd |-> cmd, stdout |-> run.stdout, stderr |-> run.stderr,
                      status |-> run.status, output |-> check_output(cmd, run), ran |-> TRUE]
    /\ UNCHANGED <<projFile, cwd, mode, fs, requests, now, rl_last, granted, CheckVars,
                   settings_call, mcp, loggers, session, pipes>>

\* agent_loop hands a run_bash tool call to handle_tool_call
RunCommand(cmd, choice, run) ==
    ApplyRun(cmd, choice, run, run_bash(mode, permissions, cwd, cmd, choice, run.status = 0))

NextShell ==
    \E cmd \in SessionCommands, choice \in Answers, run \in ShellRuns : RunCommand(cmd, choice, run)

SpecShell == InitShell /\ [][NextShell]_vars

----------------------------------------------------------------------------
(* The audit log under the AuditLogger instances of a process              *)

\* the events of the callers: event type, subject and tool
AuditEvents ==
    { [event_type |-> "command_blocked", target |-> CmdSudo, tool |-> "run_bash"],
      [event_type |-> "file_access_denied", target |-> PathEtc, tool |-> "edit_file"] }

\* the AuditLogger instances and the lines of the log the model follows
MaxLoggers == 3
MaxLogLines == 5

\* AuditLogger.log_event: self.logger.info(...) hands the record to every handler of the
\* logger 'grok.security', and each FileHandler(security.log), opened for appending, writes
\* the formatted record as one line at the end of the file
log_event(log, handlers, event) == log \o [i \in 1..handlers |-> event]

\* the process has imported grok/tools.py, whose SecurityManager() made the first AuditLogger
InitAudit ==
    /\ userFile = EmptySettings
    /\ projFile = EmptySettings
    /\ cwd = DirA
    /\ mode = get_mode(userFile, projFile)
    /\ permissions = get_permissions(userFile, projFile)
    /\ fs = InitialFiles
    /\ ya_answered = {}
    /\ audit = <<>>
    /\ last = NoCall
    /\ requests = NoRequests
    /\ now = 0
    /\ rl_last = NoCheck
    /\ granted = [k \in Keys |-> <<>>]
    /\ san = NoSanitize
    /\ cmd_check = NoCommandCheck
    /\ file_check = NoFileCheck
    /\ settings_call = NoSettingsCall
    /\ mcp = NoMcpCall
    /\ IdleProcess

\* what the audit actions leave alone
OnlyAudit ==
    UNCHANGED <<userFile, projFile, cwd, mode, permissions, fs, ya_answered, last, requests, now,
                rl_last, granted, CheckVars, settings_call, mcp, shell, session, pipes>>

\* AuditLogger.__init__ (or SecurityManager.__init__, which calls it): logging.getLogger
\* returns the one logger of that name and addHandler gives it one more FileHandler
NewAuditLogger ==
    /\ loggers < MaxLoggers
    /\ loggers' = loggers + 1
    /\ audit' = audit
    /\ OnlyAudit

\* a caller calls log_event (or log_security_event) on one of the instances
LogEvent(event) ==
    /\ Len(audit) + loggers <= MaxLogLines
    /\ audit' = log_event(audit, loggers, event)
    /\ loggers' = loggers
    /\ OnlyAudit

NextAudit ==
    \/ NewAuditLogger
    \/ \E event \in AuditEvents : LogEvent(event)

SpecAudit == InitAudit /\ [][NextAudit]_vars

----------------------------------------------------------------------------
(* fetch_from_mcp and its subprocess on the three pipes between them       *)

\* what a pipe holds before a write to it blocks, in blocks of output, and the blocks the
\* subprocess writes in one run
PipeCapacity == 1
MaxWrites == 4

\* the subprocesses: each writes blocks to its stdout and its stderr in an order of its own
ChildPrograms ==
    UNION { [1..n -> {"stdout", "stderr"}] : n \in 0..MaxWrites }

\* the process is in agent_loop, which is about to call fetch_from_mcp
InitPipes ==
    /\ userFile = EmptySettings
    /\ projFile = EmptySettings
    /\ cwd = DirA
    /\ mode = get_mode(userFile, projFile)
    /\ permissions = get_permissions(userFile, projFile)
    /\ fs = InitialFiles
    /\ ya_answered = {}
    /\ audit = <<>>
    /\ last = NoCall
    /\ requests = NoRequests
    /\ now = 0
    /\ rl_last = NoCheck
    /\ granted = [k \in Keys |-> <<>>]
    /\ san = NoSanitize
    /\ cmd_check = NoCommandCheck
    /\ file_check = NoFileCheck
    /\ settings_call = NoSettingsCall
    /\ mcp = NoMcpCall
    /\ IdleProcess

\* what the steps of fetch_from_mcp and of its subprocess leave alone
OnlyPipes ==
    UNCHANGED <<userFile, projFile, cwd, mode, permissions, fs, ya_answered, audit, last,
                requests, now, rl_last, granted, CheckVars, settings_call, mcp, shell, loggers,
                session>>

\* subprocess.Popen(..., stdin=PIPE, stdout=PIPE, stderr=PIPE): the subprocess starts with
\* three empty pipes to fetch_from_mcp
Popen(program) ==
    /\ pipes.parent = "idle"
    /\ pipes' = [NoPipes EXCEPT !.parent = "stdin.write", !.child = "readline", !.program = program]
    /\ OnlyPipes

\* p.stdin.write(json.dumps(msg) + '\n'); p.stdin.close(): the request is in the stdin pipe
WriteRequest ==
    /\ pipes.parent = "stdin.write"
    /\ pipes' = [pipes EXCEPT !.parent = "stdout.read", !.stdin = 1]
    /\ OnlyPipes

\* the subprocess reads its request
ChildReadsRequest ==
    /\ pipes.child = "readline"
    /\ pipes.stdin = 1
    /\ pipes' = [pipes EXCEPT !.child = "write", !.stdin = 0]
    /\ OnlyPipes

\* the subprocess writes the next block of its output: the write returns when the pipe has
\* room for the block
ChildWrites ==
    /\ pipes.child = "write"
    /\ pipes.program # <<>>
    /\ pipes[Head(pipes.program)] < PipeCapacity
    /\ pipes' = [pipes EXCEPT ![Head(pipes.program)] = @ + 1, !.program = Tail(@)]
    /\ OnlyPipes

\* the subprocess has written its output and exits, which closes its ends of the pipes
ChildExits ==
    /\ pipes.child = "write"
    /\ pipes.program = <<>>
    /\ pipes' = [pipes EXCEPT !.child = "exited"]
    /\ OnlyPipes

\* output = p.stdout.read(): takes what the pipe holds and returns at the end of the stream
ReadStdout ==
    /\ pipes.parent = "stdout.read"
    /\ pipes.stdout > 0 \/ pipes.child = "exited"
    /\ pipes' = IF pipes.stdout > 0 THEN [pipes EXCEPT !.stdout = 0]
                ELSE [pipes EXCEPT !.parent = "stderr.read"]
    /\ OnlyPipes

\* error = p.stderr.read(): takes what the pipe holds and returns at the end of the stream
ReadStderr ==
    /\ pipes.parent = "stderr.read"
    /\ pipes.stderr > 0 \/ pipes.child = "exited"
    /\ pipes' = IF pipes.stderr > 0 THEN [pipes EXCEPT !.stderr = 0]
                ELSE [pipes EXCEPT !.parent = "wait"]
    /\ OnlyPipes

\* p.wait() returns when the subprocess has exited
Wait ==
    /\ pipes.parent = "wait"
    /\ pipes.child = "exited"
    /\ pipes' = [pipes EXCEPT !.parent = "returned"]
    /\ OnlyPipes

\* fetch_from_mcp is in a call that returns only after a step of the subprocess
ParentBlocked ==
    \/ pipes.parent = "stdout.read" /\ pipes.stdout = 0 /\ pipes.child # "exited"
    \/ pipes.parent = "stderr.read" /\ pipes.stderr = 0 /\ pipes.child # "exited"
    \/ pipes.parent = "wait" /\ pipes.child # "exited"

\* the subprocess is in a call that returns only after a step of fetch_from_mcp
ChildBlocked ==
    \/ pipes.child = "readline" /\ pipes.stdin = 0 /\ pipes.parent # "stdin.write"
    \/ /\ pipes.child = "write"
       /\ pipes.program # <<>>
       /\ pipes[IF pipes.program = <<>> THEN "stdout" ELSE Head(pipes.program)] = PipeCapacity

NextPipes ==
    \/ \E program \in ChildPrograms : Popen(program)
    \/ WriteRequest
    \/ ChildReadsRequest
    \/ ChildWrites
    \/ ChildExits
    \/ ReadStdout
    \/ ReadStderr
    \/ Wait

SpecPipes == InitPipes /\ [][NextPipes]_vars

----------------------------------------------------------------------------
(* The claims                                                              *)

Blocked == "Command blocked for security reasons."
DeniedByPermissions == "Command denied by permissions."
FileDenied == "File access denied for security reasons."

\* path, given in the working directory, has a canonical form that begins with a restricted path
UnderRestrictedRoot(path) ==
    /\ ~ResolveRaises(path)
    /\ \E restricted \in restricted_paths : StartsWith(Resolve(path, cwd), restricted)

\* C1: a run_bash call for a command that CommandFilter.is_allowed rejects, handled in default
\* or auto-complete mode, does not run the command and does not prompt the operator, also
\* when the command is in permissions['allow'] or in the project's remembered commands
C1_StaticDenyBeatsPermissions ==
    (last.tool = "run_bash" /\ mode \in {"default", "auto-complete"} /\ ~is_allowed(last.target))
        => (last.output = Blocked /\ last.spawned = <<>> /\ ~last.prompted)

\* C1 witness: a rejected command that is allow-listed and remembered was proposed and blocked
C1_Witness ==
    /\ last.tool = "run_bash"
    /\ mode = "default"
    /\ ~is_allowed(last.target)
    /\ last.target \in permissions.allow
    /\ InList(last.target, permissions.allowed_cmds[cwd])
    /\ last.output = Blocked

\* C2: a run_bash command that is in the deny-list is neither run nor prompted for, also when
\* it is in the allow-list or in the project's remembered commands
C2_DenyListWins ==
    (last.tool = "run_bash" /\ last.target \in permissions.deny)
        => (last.spawned = <<>> /\ ~last.prompted)

\* C2 witness: a statically safe command in the deny-list, the allow-list and the remembered
\* commands was proposed in default mode and denied by the permissions
C2_Witness ==
    /\ last.tool = "run_bash"
    /\ mode = "default"
    /\ is_allowed(last.target)
    /\ last.target \in permissions.deny
    /\ last.target \in permissions.allow
    /\ InList(last.target, permissions.allowed_cmds[cwd])
    /\ last.output = DeniedByPermissions

\* C3: in planning mode every edit_file and run_bash call returns a plan record and has no
\* side effect: no file written, no process spawned, no prompt, no audit event, and the files
\* and the audit log are as they were when the session started
C3_PlanningHasNoEffect ==
    (mode = "planning" /\ last.tool \in {"edit_file", "run_bash"})
        => /\ last.output = (IF last.tool = "edit_file" THEN "Plan to edit" ELSE "Plan to run bash")
           /\ last.written = <<>>
           /\ last.spawned = <<>>
           /\ ~last.prompted
           /\ last.logged = 0
           /\ fs = InitialFiles
           /\ audit = <<>>
           /\ permissions = get_permissions(userFile, projFile)

\* C3 witness: in planning mode an edit of an existing, writable file was proposed
C3_Witness ==
    /\ mode = "planning"
    /\ last.tool = "edit_file"
    /\ last.target = PathA
    /\ file_is_allowed(PathA, "write", cwd, fs)
    /\ last.output = "Plan to edit"

C5_RestrictedEditDeniedInEveryMode ==
    (last.tool = "edit_file" /\ UnderRestrictedRoot(last.target))
        => (last.output = FileDenied /\ last.written = <<>>)

\* C5 as amended: in default and auto-complete mode such an edit is Denied, with no prompt;
\* in planning mode it yields a plan record; in no mode is the file written
C5_RestrictedEditNeverWritten ==
    (last.tool = "edit_file" /\ UnderRestrictedRoot(last.target))
        => /\ last.written = <<>>
           /\ ~last.prompted
           /\ \A p \in DOMAIN fs :
                  (\E restricted \in restricted_paths : StartsWith(p, restricted))
                      => fs[p] = InitialFiles[p]
           /\ last.output = (IF mode = "planning" THEN "Plan to edit" ELSE FileDenied)

\* C5 witness: in auto-complete mode an edit was proposed for a relative path that resolves to
\* an existing file under /etc with an allowed extension, and it was denied
C5_Witness ==
    /\ last.tool = "edit_file"
    /\ last.target = PathUp
    /\ mode = "auto-complete"
    /\ Resolve(PathUp, cwd) \in DOMAIN fs
    /\ last.output = FileDenied

\* C6: in default mode with empty allow-list, deny-list and remembered commands, "ls -la"
\* prompts; once the operator has answered 'ya' to a command, every later run_bash of the
\* same command in the same project directory and session runs it without a prompt
\* (a step that leaves run_bash in last is a RunBash step for last'.target)
C6_YaIsRemembered ==
    [][last'.tool = "run_bash" =>
           /\ ( /\ last'.target = CmdLs
                /\ mode = "default"
                /\ permissions.allow = {}
                /\ permissions.deny = {}
                /\ permissions.allowed_cmds[cwd] = <<>> )
                  => last'.prompted
           /\ <<cwd, last'.target>> \in ya_answered
                  => (~last'.prompted /\ last'.spawned = <<last'.target>>)]_vars

\* C6 witness: "ls -la" was answered 'ya' with nothing allowed or denied, and a later
\* run_bash of it ran without a prompt
C6_Witness ==
    /\ mode = "default"
    /\ permissions.allow = {}
    /\ permissions.deny = {}
    /\ permissions.allowed_cmds[cwd] = <<CmdLs>>
    /\ <<cwd, CmdLs>> \in ya_answered
    /\ last.tool = "run_bash"
    /\ last.target = CmdLs
    /\ ~last.prompted
    /\ last.spawned = <<CmdLs>>

\* C7: every edit_file or run_bash call that ends in a decision writes exactly one audit event
C7_OneAuditEventPerDecision ==
    (last.tool \in {"edit_file", "run_bash"} /\ last.output # Raised) => last.logged = 1

\* C8: every run_bash call whose command passes the static check is submitted to the rate
\* limiter under the commands class
C8_RunBashIsRateLimited ==
    (last.tool = "run_bash" /\ mode # "planning" /\ is_allowed(last.target))
        => (rl_last.limit_type = "commands" /\ requests # NoRequests)

\* the times at which key was granted a call that are less than a window of limit_type old
RecentGrants(key, limit_type) ==
    {i \in 1..Len(granted[key]) : now - granted[key][i] < limits[limit_type].window}

\* C9: with the commands class alone (50 calls in 300 seconds), a call returns true exactly
\* when fewer than 50 calls were granted to its key less than 300 seconds ago: the first 50
\* calls of a window are granted, the next is refused, and once the window has elapsed a
\* call is granted again
C9_WindowOfNCalls ==
    [][\A key \in Keys :
           CheckRateLimit(key, "commands") =>
               rl_last'.result =
                   (Cardinality(RecentGrants(key, "commands")) < limits["commands"].count)]_vars

\* C9 witness: 50 calls were granted at second 0, and the call made when the window had
\* elapsed, at second 300, was granted
C9_Witness ==
    /\ now = limits["commands"].window
    /\ \E key \in Keys :
           /\ Len(granted[key]) = limits["commands"].count + 1
           /\ \A i \in 1..limits["commands"].count : granted[key][i] = 0
           /\ granted[key][limits["commands"].count + 1] = now
           /\ rl_last = [key |-> key, limit_type |-> "commands", result |-> TRUE]

\* what a call for key under limit_type would return now
WouldGrant(key, limit_type) == check_rate_limit(requests, key, limit_type, now).result

\* C10: the timestamps are kept per (key, limit class): a call under one class leaves what a
\* call for the same key under the other class returns as it was
C10_SequencePerKeyAndClass ==
    [][\A key \in Keys, limit_type \in LimitTypes :
           CheckRateLimit(key, limit_type) =>
               \A other \in LimitTypes \ {limit_type} :
                   WouldGrant(key, other)' = WouldGrant(key, other)]_vars

\* the times of a sequence that are less than a window of limit_type old now
StillInWindow(times, limit_type) ==
    SelectSeq(times, LAMBDA t : now - t < limits[limit_type].window)

\* C11: a check_rate_limit call that returns false appends no timestamp: the key's sequence
\* is what was still in the window; a call that returns true appends exactly one timestamp,
\* the current time, at the end of what was still in the window
C11_RefusedCallIsNotRecorded ==
    [][\A key \in Keys, limit_type \in LimitTypes :
           CheckRateLimit(key, limit_type) =>
               LET old == IF key \in DOMAIN requests THEN requests[key] ELSE <<>>
                   new == requests'[key]
               IN  IF rl_last'.result
                   THEN /\ new # <<>>
                        /\ new[Len(new)] = now
                        /\ SubSeq(new, 1, Len(new) - 1) = StillInWindow(old, limit_type)
                   ELSE new = StillInWindow(old, limit_type)]_vars

\* C11 witness: a call under the commands class was refused with 50 times on record, none of
\* them the time of the refused call
C11_Witness ==
    /\ rl_last.limit_type = "commands"
    /\ ~rl_last.result
    /\ now > 0
    /\ Len(requests[rl_last.key]) = limits["commands"].count
    /\ \A i \in 1..Len(requests[rl_last.key]) : requests[rl_last.key][i] < now

\* the text holds the lower-case literal lit somewhere, ignoring case
HasLit(text, lit) == \E i \in 1..Len(text) : MatchAt(text, i, lit)

JavascriptUrl == <<"j", "a", "v", "a", "s", "c", "r", "i", "p", "t", ":">>
DataHtmlUrl == <<"d", "a", "t", "a", ":", "t", "e", "x", "t", "/", "h", "t", "m", "l">>

\* the text holds an opening script tag that a closing script tag follows, on whatever line
HasScriptBlock(text) ==
    \E i \in 1..Len(text) :
        /\ MatchAt(text, i, <<"<", "s", "c", "r", "i", "p", "t">>)
        /\ \E g \in (i + 7)..Len(text) :
               /\ text[g] = ">"
               /\ \A k \in (i + 7)..(g - 1) : text[k] # ">"
               /\ \E e \in (g + 1)..Len(text) :
                      MatchAt(text, e, <<"<", "/", "s", "c", "r", "i", "p", "t", ">">>)

\* the text holds a control character
HasControl(text) == \E i \in 1..Len(text) : text[i] \in ControlChars \cup {"\t", "\n", "\r"}

\* the text holds none of the removed patterns
NoRemovedPattern(text) ==
    /\ ~HasLit(text, JavascriptUrl)
    /\ ~HasLit(text, DataHtmlUrl)
    /\ ~HasScriptBlock(text)
    /\ ~HasControl(text)

\* the whitespace of the text is single spaces between words
OnlySingleSpaces(text) ==
    /\ \A i \in 1..Len(text) : text[i] \in WS => text[i] = " "
    /\ \A i \in 1..(Len(text) - 1) : ~(text[i] = " " /\ text[i + 1] = " ")
    /\ text # <<>> => (text[1] # " " /\ text[Len(text)] # " ")

\* C12: sanitize is idempotent: sanitizing the text sanitize returned returns it unchanged;
\* and a text with none of the removed patterns and only single spaces is returned unchanged
C12_SanitizeIsIdempotent ==
    /\ (san.passes = 2 /\ san.output.ok) => san.output.text = san.input
    /\ (san.passes >= 1 /\ san.output.ok /\ NoRemovedPattern(san.input) /\ OnlySingleSpaces(san.input))
           => san.output.text = san.input

\* C13: the text sanitize returns holds, ignoring case, no 'javascript:', no 'data:text/html',
\* no script block and no control character, also when the pattern appears only once another
\* was removed or when the script block spans several lines
C13_SanitizedTextHoldsNoPattern ==
    (san.passes >= 1 /\ san.output.ok) => NoRemovedPattern(san.output.text)

\* C14: sanitize fails with the oversize error exactly when the raw input has more than
\* 10,000 characters: 10,000 characters are accepted, and more are rejected even if the
\* removals would bring the text under the limit
C14_OversizeExactlyAboveLimit ==
    san.passes >= 1 => (san.output.ok <=> Len(san.input) <= 10000)

\* C14 witness: a text of more than 10,000 characters that the removals would cut to fewer
\* was handed to sanitize and rejected
C14_Witness ==
    /\ san.passes = 1
    /\ Len(san.input) > 10000
    /\ Len(RemoveDangerous(san.input)) < 10000
    /\ ~san.output.ok

\* the first whitespace-delimited word of the command, as spelled: the run of characters
\* from the first that is no whitespace up to the next whitespace or the end
FirstWord(c) ==
    LET starts == {i \in 1..Len(c) : c[i] \notin WS /\ \A k \in 1..(i - 1) : c[k] \in WS}
    IN  IF starts = {} THEN <<>>
        ELSE LET b == CHOOSE i \in starts : TRUE
                 e == CHOOSE j \in b..Len(c) :
                          /\ \A k \in b..j : c[k] \notin WS
                          /\ (j = Len(c) \/ c[j + 1] \in WS)
             IN  SubSeq(c, b, e)

\* C15: CommandFilter.is_allowed returns false exactly when the lower-cased first
\* whitespace-delimited word of the command is in the dangerous-executables set or the
\* command matches one of the injection patterns; every other command, the empty one
\* included, gets true
C15_IsAllowedDecision ==
    cmd_check.called =>
        /\ cmd_check.result \in BOOLEAN
        /\ ~cmd_check.result <=>
               \/ Lower(FirstWord(cmd_check.command)) \in dangerous_commands
               \/ dangerous_patterns(cmd_check.command)
        /\ cmd_check.command = <<>> => cmd_check.result

\* C15 witness: a command that matches no injection pattern and whose first word is in the
\* dangerous-executables set only once lower-cased was refused
C15_Witness ==
    /\ cmd_check.called
    /\ ~cmd_check.result
    /\ ~dangerous_patterns(cmd_check.command)
    /\ FirstWord(cmd_check.command) \notin dangerous_commands
    /\ Lower(FirstWord(cmd_check.command)) \in dangerous_commands

\* canonical path rp is the directory root or lies below it
Under(rp, root) ==
    \/ rp = root
    \/ (Len(rp) > Len(root) /\ SubSeq(rp, 1, Len(root)) = root /\ rp[Len(root) + 1] = "/")

\* the path of the last is_allowed call resolves, and its canonical form is under a restricted root
ChecksRestrictedPath ==
    /\ file_check.called
    /\ ~ResolveRaises(file_check.path)
    /\ \E root \in restricted_paths : Under(Resolve(file_check.path, cwd), root)

\* C16: for every path whose canonical form lies under a restricted root, FileGuardian.is_allowed
\* returns false for every operation, however the path was spelled
C16_RestrictedRootAlwaysDenied ==
    ChecksRestrictedPath => ~file_check.result

\* C16 witness: a list operation on a relative path that reaches /etc only through the
\* symbolic link of the working directory was refused
C16_Witness ==
    /\ ChecksRestrictedPath
    /\ file_check.operation = "list"
    /\ file_check.path = <<"l", ".", "t", "x", "t">>
    /\ ~file_check.result

\* the lower-cased extension of a canonical path: what follows the last dot of its last name
ExtensionAllowed(rp) == Lower(Suffix(rp)) \in allowed_extensions

\* C17: for the read operation, FileGuardian.is_allowed returns true exactly when the canonical
\* path is under no restricted root and its extension is in the allowed set; a path in a
\* sibling directory whose name only begins with the text of a restricted root is allowed
C17_ReadAllowedOutsideRoots ==
    (file_check.called /\ file_check.operation = "read" /\ ~ResolveRaises(file_check.path))
        => (file_check.result <=>
                /\ ~\E root \in restricted_paths : Under(Resolve(file_check.path, cwd), root)
                /\ ExtensionAllowed(Resolve(file_check.path, cwd)))

\* C18: FileGuardian.is_allowed is fail-closed: when the resolution of the path raises, or the
\* size lookup of the target of a write raises, the result is false, and it is a truth value
\* (no exception reaches the caller)
C18_FailClosed ==
    file_check.called =>
        /\ file_check.result \in BOOLEAN
        /\ ResolveRaises(file_check.path) => ~file_check.result
        /\ ( /\ ~ResolveRaises(file_check.path)
             /\ file_check.operation = "write"
             /\ Resolve(file_check.path, cwd) \in StatRaises ) => ~file_check.result

\* C18 witness: a write was refused for a path outside every restricted root, with an allowed
\* extension, whose size lookup raises
C18_Witness ==
    /\ file_check.called
    /\ file_check.operation = "write"
    /\ ~ResolveRaises(file_check.path)
    /\ Resolve(file_check.path, cwd) \in StatRaises
    /\ ~\E root \in restricted_paths : StartsWith(Resolve(file_check.path, cwd), root)
    /\ ExtensionAllowed(Resolve(file_check.path, cwd))
    /\ ~file_check.result

\* C19: at the prompt for a command, 'y' runs the command once and leaves the in-memory and
\* the persisted permission sets as they were; 'ya' runs it and adds it to the remembered
\* commands of the current project directory only, in memory and in the set that is saved;
\* any other answer runs nothing and leaves the permission sets as they were
C19_PromptAnswers ==
    [][(last'.tool = "run_bash" /\ last'.prompted) =>
           /\ projFile' = projFile
           /\ IF last'.answer = "y"
              THEN /\ last'.spawned = <<last'.target>>
                   /\ permissions' = permissions
                   /\ userFile' = userFile
              ELSE IF last'.answer = "ya"
              THEN /\ last'.spawned = <<last'.target>>
                   /\ permissions'.allow = permissions.allow
                   /\ permissions'.deny = permissions.deny
                   /\ permissions'.allowed_cmds[cwd] =
                          Append(permissions.allowed_cmds[cwd], last'.target)
                   /\ \A d \in Dirs \ {cwd} :
                          permissions'.allowed_cmds[d] = permissions.allowed_cmds[d]
                   /\ userFile'["permissions"] = {permissions'}
              ELSE /\ last'.spawned = <<>>
                   /\ permissions' = permissions
                   /\ userFile' = userFile]_vars

\* C19 witness: a command was answered 'ya' in a session that held remembered commands for
\* both directories; it ran, was added after the one of the working directory, and the other
\* directory still holds one
C19_Witness ==
    /\ last.tool = "run_bash"
    /\ last.prompted
    /\ last.answer = "ya"
    /\ last.spawned = <<last.target>>
    /\ Len(permissions.allowed_cmds[cwd]) = 2
    /\ permissions.allowed_cmds[cwd][2] = last.target
    /\ \E d \in Dirs \ {cwd} : Len(permissions.allowed_cmds[d]) = 1
    /\ userFile["permissions"] = {permissions}

\* C20: remembered commands are scoped to the project directory: a command answered 'ya' in
\* the working directory runs there without a prompt, in that session and in later ones; a
\* command that is not in the allow-list and was not answered 'ya' in the working directory
\* prompts the operator, also when it was answered 'ya' in another directory
C20_RememberedPerProject ==
    [][last'.tool = "run_bash" =>
           /\ <<cwd, last'.target>> \in ya_answered
                  => (~last'.prompted /\ last'.spawned = <<last'.target>>)
           /\ (last'.target \notin permissions.allow /\ <<cwd, last'.target>> \notin ya_answered)
                  => last'.prompted]_vars

\* C20 witness: "ls -la" was answered 'ya' in /p1 and never in /p2, and a session in /p2
\* prompted for it
C20_Witness ==
    /\ cwd = DirB
    /\ <<DirA, CmdLs>> \in ya_answered
    /\ <<DirB, CmdLs>> \notin ya_answered
    /\ InList(CmdLs, permissions.allowed_cmds[DirA])
    /\ last.tool = "run_bash"
    /\ last.target = CmdLs
    /\ last.prompted

----------------------------------------------------------------------------
(* Persistence of the settings (SpecSettings)                              *)

\* C21: after update_permissions(p), get_permissions() in the same project directory returns
\* p, in the same process and after a restart, whatever the user-level and the project-level
\* settings files hold.
C21_PermissionsRoundTrip ==
    settings_call.op = "update_permissions" =>
        /\ get_permissions(userFile, projFile) = settings_call.permissions
        /\ settings_call.restarted => permissions = settings_call.permissions

\* C22: after set_mode(m), get_mode() returns m, in the same process and after a restart in
\* the same directory, whatever the user-level and the project-level settings files hold.
C22_ModeRoundTrip ==
    settings_call.op = "set_mode" =>
        /\ get_mode(userFile, projFile) = settings_call.mode
        /\ settings_call.restarted => mode = settings_call.mode

----------------------------------------------------------------------------
(* The modes (Spec)                                                        *)

\* the file an edit_file call of the working directory is about
TargetOf(path) == Canonical(PathJoin(cwd, path), cwd)

C24_EditNeedsExplicitAccept ==
    [][(mode = "default" /\ last'.tool = "edit_file") =>
           /\ (last'.written # <<>>) <=> (last'.prompted /\ last'.answer = "y")
           /\ last'.prompted => last'.spawned = <<CodeDiff>>
           /\ (last'.prompted /\ last'.answer = "y")
                  => /\ last'.output = "Edit applied."
                     /\ fs' = [fs EXCEPT ![TargetOf(last'.target)] =
                                             File(last'.validated.text)]
           /\ (last'.prompted /\ last'.answer # "y")
                  => /\ last'.output = "Edit rejected."
                     /\ fs' = fs
           /\ ~last'.prompted => fs' = fs]_vars

\* C24 witness: in default mode the operator answered 'ya' to the diff of an edit of a.txt;
\* the edit was rejected and a.txt is as it was when the session started
C24_Witness ==
    /\ mode = "default"
    /\ last.tool = "edit_file"
    /\ last.target = PathA
    /\ last.prompted
    /\ last.answer = "ya"
    /\ last.spawned = <<CodeDiff>>
    /\ last.output = "Edit rejected."
    /\ fs = InitialFiles

\* C25: in default and in auto-complete mode an edit_file call whose target path is in the
\* deny-list, as the call names it or by its absolute path, and that returns, is denied by
\* the permissions or by a static check before them: it shows no prompt and writes no file
C25_DenyListAppliesToEdits ==
    ( /\ mode \in {"default", "auto-complete"}
      /\ last.tool = "edit_file"
      /\ last.output # Raised
      /\ (last.target \in permissions.deny \/ TargetOf(last.target) \in permissions.deny) )
        => /\ last.written = <<>>
           /\ ~last.prompted
           /\ last.output \in {DeniedByPermissions, FileDenied, "Input validation failed"}

\* C26: in planning mode an edit_file or run_bash call computes no verdict: it reaches none
\* of validate_command, validate_file_operation and validate_input, logs no audit event,
\* shows no prompt, spawns no process, and leaves the permissions, both settings files and
\* the files of the machine as they are; it returns the plan record
C26_PlanningComputesNoVerdict ==
    [][(mode = "planning" /\ last'.tool \in {"edit_file", "run_bash"}) =>
           /\ last'.checked = {}
           /\ last'.logged = 0
           /\ audit' = audit
           /\ ~last'.prompted
           /\ last'.spawned = <<>>
           /\ permissions' = permissions
           /\ userFile' = userFile
           /\ projFile' = projFile
           /\ fs' = fs
           /\ last'.output = (IF last'.tool = "edit_file" THEN "Plan to edit"
                              ELSE "Plan to run bash")]_vars

\* C26 witness: in planning mode the command validate_command refuses was proposed and a plan
\* record came back, with no validator reached and no audit event
C26_Witness ==
    /\ mode = "planning"
    /\ last.tool = "run_bash"
    /\ last.target = CmdSudo
    /\ ~validate_command(CmdSudo)
    /\ last.output = "Plan to run bash"
    /\ last.checked = {}
    /\ audit = <<>>

----------------------------------------------------------------------------
(* The inspection tools in planning mode (SpecInspect)                     *)

\* C27: in planning mode read_file, list_files, find_files and grep_files still execute: the
\* call returns what the file_ops method returns on the files of the machine, not a plan
\* record
C27_InspectionRunsInPlanning ==
    (mode = "planning" /\ last.tool \in InspectionTools)
        => /\ last.output = file_ops(last.tool, cwd, fs, last.target).output
           /\ last.data = file_ops(last.tool, cwd, fs, last.target).data
           /\ last.output # PlanToInspect(last.tool)

----------------------------------------------------------------------------
(* The auxiliary-tool protocol (SpecMcp)                                   *)

\* the subprocess was sent a request and answered with a JSON object that has an error member
AnsweredWithError ==
    /\ mcp.called
    /\ mcp.written = 1
    /\ json_loads(mcp.output).ok
    /\ json_loads(mcp.output).value.kind = "object"
    /\ HasMember(json_loads(mcp.output).value.members, ErrorKey)

\* the value of the error member of the answer
ErrorDetail == Str(Member(json_loads(mcp.output).value.members, ErrorKey))

\* C28 as claimed: a call whose subprocess answers with a JSON object that has an error
\* member returns the failure whose detail is the value of that member
C28_ErrorMemberIsTheDetail ==
    AnsweredWithError => mcp.result = ErrorPrefix \o ErrorDetail

\* C28: a call whose subprocess answers with a JSON object that has an error member returns
\* a failure, never the result member: its detail is the value of the error member when the
\* subprocess wrote nothing to its stderr, and what it wrote to its stderr otherwise
C28_ErrorMemberOrStderrIsTheDetail ==
    AnsweredWithError =>
        /\ mcp.result = ErrorPrefix \o (IF mcp.error = <<>> THEN ErrorDetail ELSE mcp.error)
        /\ StartsWith(mcp.result, ErrorPrefix)

\* C28 witness: the subprocess answered {"error":"not found"} with an empty stderr and the
\* call returned "Error: not found"
C28_Witness ==
    /\ AnsweredWithError
    /\ mcp.output = <<"{", "\"", "e", "r", "r", "o", "r", "\"", ":", "\"", "n", "o", "t", " ", "f", "o", "u", "n", "d", "\"", "}">>
    /\ mcp.error = <<>>
    /\ mcp.result = <<"E", "r", "r", "o", "r", ":", " ", "n", "o", "t", " ", "f", "o", "u", "n", "d">>

\* C29: a call whose subprocess writes an output that is not valid JSON returns a failure,
\* and not the output itself
C29_NonJsonOutputIsAFailure ==
    (mcp.called /\ mcp.written = 1 /\ ~json_loads(mcp.output).ok)
        => /\ StartsWith(mcp.result, ErrorPrefix)
           /\ mcp.result # mcp.output

\* C30: when a call that spawned a subprocess has returned, the stdin of the subprocess has
\* been closed, its exit has been waited for, and exactly one request was written to it
C30_SubprocessIsTornDown ==
    (mcp.called /\ mcp.spawned) => (mcp.closed /\ mcp.waited /\ mcp.written = 1)

----------------------------------------------------------------------------
(* Failures inside the gate (SpecLoop)                                     *)

\* C31: whatever the tool call, the mode and the operator's answer, handle_tool_call returns
\* a record and raises nothing, and agent_loop goes on to the next action
C31_NoFailureIsFatal ==
    last.tool \in ToolNames => (last.output \notin {Raised, None} /\ session.alive)

----------------------------------------------------------------------------
(* Commands that fail (SpecShell)                                          *)

\* C32: what the gate returns for a command that exited with a status other than 0 is what
\* the command wrote to its standard error, and it is nothing the gate returns for a command
\* that exited with status 0
C32_NonZeroExitReportsStderr ==
    (shell.ran /\ shell.status # 0)
        => /\ shell.output = shell.stderr
           /\ \A c \in SessionCommands, run \in ShellRuns :
                  run.status = 0 => check_output(c, run) # shell.output

----------------------------------------------------------------------------
(* The audit log (SpecAudit)                                               *)

\* C33: every log_event call appends exactly one line to the log and changes no earlier
\* line, however many AuditLogger instances the process has created
C33_OneLinePerEvent ==
    [][audit' # audit => \E event \in AuditEvents : audit' = Append(audit, event)]_vars

----------------------------------------------------------------------------
(* The operator's commands (SpecLoop)                                      *)

\* C34: once the operator has issued /mode <mode> at the prompt of a running session, the
\* session goes on and decides its tool calls under that mode
C34_ModeIsProcessWide ==
    session.issued # "" => (session.alive /\ mode = session.issued)

\* C35: when the operator's input is /mcp__docs__greet hi, agent_loop goes on with the result
\* of the prompt greet on the server docs (in planning mode, the plan to execute it) as the
\* last entry of the history, and the input has not gone to the slash-command dispatch
C35_McpPromptIsExecuted ==
    session.input = McpPromptInput
        => /\ session.alive
           /\ session.history # <<>>
           /\ IF session.history = <<>> THEN FALSE
              ELSE /\ session.history[Len(session.history)].role = "system"
                   /\ IF mode = "planning"
                      THEN session.history[Len(session.history)].content
                               = PlanToExecute(<<"g", "r", "e", "e", "t">>, <<"d", "o", "c", "s">>, <<"h", "i">>)
                      ELSE session.fetched

----------------------------------------------------------------------------
(* The times the rate limiter stores (SpecRLMixed)                         *)

\* C37: right after a check_rate_limit(key, c), the times stored for key are no more than the
\* ceiling of class c and each is younger than the window of class c
C37_StoredTimesFitTheClass ==
    [][now' = now =>
          /\ Len(requests'[rl_last'.key]) <= limits[rl_last'.limit_type].count
          /\ \A i \in 1..Len(requests'[rl_last'.key]) :
                 now' - requests'[rl_last'.key][i] < limits[rl_last'.limit_type].window]_vars

----------------------------------------------------------------------------
(* What a settings call writes (SpecSettings)                              *)

\* C38: a set_mode or update_permissions call stores its argument under its own key of the
\* user-level file, leaves every other key of that file as it was (absent keys stay absent,
\* whatever the project-level file holds), and leaves the project-level file untouched
C38_WritersChangeOnlyTheirKey ==
    [][(settings_call'.op # "" /\ ~settings_call'.restarted) =>
          /\ projFile' = projFile
          /\ IF settings_call'.op = "set_mode"
             THEN /\ userFile'["mode"] = {settings_call'.mode}
                  /\ userFile'["permissions"] = userFile["permissions"]
             ELSE /\ userFile'["permissions"] = {settings_call'.permissions}
                  /\ userFile'["mode"] = userFile["mode"]]_vars

----------------------------------------------------------------------------
(* The pipes of the auxiliary subprocess (SpecPipes)                       *)

\* C39: whatever the subprocess writes to its stdout and its stderr, and in whatever order,
\* fetch_from_mcp and the subprocess are never both in a call that only a step of the other
\* ends, so that the call of fetch_from_mcp returns
C39_NeverBothBlocked == ~(ParentBlocked /\ ChildBlocked)

----------------------------------------------------------------------------
(* What an applied edit writes (SpecEdits)                                 *)

====
